---- MODULE Spec2Model ----
(***************************************************************************)
(* State-machine model of the WASM test harness of wasm-mojo               *)
(* (test-wasm/conftest.py): the bump allocator, the linear-memory          *)
(* accessors, the string-struct marshaller and the write import.           *)
(*                                                                         *)
(* Guest memory is a sequence of bytes; address a is mem[a + 1].  A host   *)
(* string is the sequence of its code points, its UTF-8 form a sequence of *)
(* bytes.  A 64-bit field is handled as its 8 little-endian bytes; its     *)
(* integer value is computed exactly while it lies within +-Huge and       *)
(* saturates beyond (every address and length the model can hold is far    *)
(* below Huge, so a saturated value behaves as the exact one does).        *)
(***************************************************************************)
EXTENDS Integers, Sequences, FiniteSets, TLC

VARIABLES
    alloc_ptr,        \* BumpAllocator._ptr, the allocator cursor
    mem,              \* the guest's linear memory (WasmInstance._mem_buf)
    captured_stdout,  \* the captured-output log shared with write_fn
    inst_wrapper,     \* _inst_wrapper[0] is not None
    pc,               \* position in _create_instance
    ret,              \* outcome of the last operation
    allocs,           \* history: the (ptr, size) of every successful aligned_alloc
    live,             \* history: (ptr, s) of every struct write_string_struct returned
    outs,             \* history: pointers alloc_string_struct returned
    wcalls,           \* history: the write import's calls
    steps,            \* number of state-changing operations so far
    threads,          \* aligned_alloc's locals in each thread that runs it concurrently
    daemon,           \* dmcryptd.py: its position, its locals and what it has done
    response          \* server.py: the response being built by WASMHandler

vars == <<alloc_ptr, mem, captured_stdout, inst_wrapper, pc, ret, allocs, live, outs, wcalls,
          steps, threads, daemon, response>>

\* The state of the parts a specification does not run: no thread inside
\* aligned_alloc, the daemon not started, no response begun.
NoThreads == <<>>
NoDaemon == [pc |-> "off"]
NoResponse == [pc |-> "off"]

(***************************************************************************)
(* Program constants                                                       *)
(***************************************************************************)
STRING_STRUCT_SIZE == 24
STRING_STRUCT_ALIGN == 8
\* SSO_FLAG = 0x8000_0000_0000_0000 is bit 7 of the field's most significant
\* byte; SSO_LEN_MASK = 0x1F00_0000_0000_0000 the low five bits of that byte.
SSO_FLAG_BYTE == 128
SSO_LEN_MASK_BYTE == 31

(***************************************************************************)
(* Bounds of the model                                                     *)
(***************************************************************************)
MaxBase == 3        \* heap bases 0 .. MaxBase of the allocator specification
MaxSteps == 3       \* state-changing operations per behaviour
Huge == 1048576     \* 64-bit values saturate at +-Huge

Aligns == {1, 2, 4, 8}
Sizes == {0, 1, 3, STRING_STRUCT_SIZE}

NoRet == [op |-> "none", a1 |-> 0, a2 |-> 0, a3 |-> 0, c0 |-> 0, val |-> 0,
          err |-> "", text |-> <<>>, reads |-> <<>>]

Ret(op, a1, a2, a3, c0, val, err, text, reads) ==
    [op |-> op, a1 |-> a1, a2 |-> a2, a3 |-> a3, c0 |-> c0, val |-> val,
     err |-> err, text |-> text, reads |-> reads]

(***************************************************************************)
(* Bump allocator                                                          *)
(***************************************************************************)
\* Python's a % b for b # 0: the result has the sign of b.
PyMod(a, b) == IF b > 0 THEN a % b ELSE -((-a) % (-b))

\* BumpAllocator.aligned_alloc on cursor c: the returned pointer, the cursor
\* it leaves, and the error raised (align = 0 divides by zero before any
\* assignment).
aligned_alloc_skip_advance(c, align, size) ==
    IF align = 0 THEN [ptr |-> 0, cursor |-> c, err |-> "ZeroDivisionError"]
    ELSE LET remainder == PyMod(c, align)
             p == IF remainder # 0 THEN c + (align - remainder) ELSE c
         IN [ptr |-> p, cursor |-> p, err |-> ""]

aligned_alloc_always_pad(c, align, size) ==
    IF align = 0 THEN [ptr |-> 0, cursor |-> c, err |-> "ZeroDivisionError"]
    ELSE LET remainder == PyMod(c, align)
             p == c + (align - remainder)
         IN [ptr |-> p, cursor |-> p + size, err |-> ""]

aligned_alloc(c, align, size) ==
    IF align = 0 THEN [ptr |-> 0, cursor |-> c, err |-> "ZeroDivisionError"]
    ELSE LET remainder == PyMod(c, align)
             p == IF remainder # 0 THEN c + (align - remainder) ELSE c
         IN [ptr |-> p, cursor |-> p + size, err |-> ""]

\* WasmInstance.aligned_alloc called by the host with a request that meets
\* the allocator's contract (align a power of two, size >= 0).
HostAlignedAlloc(align, size) ==
    /\ pc = "returned"
    /\ steps < MaxSteps
    /\ steps' = steps + 1
    /\ \E r \in {aligned_alloc(alloc_ptr, align, size)} :
          /\ alloc_ptr' = r.cursor
          /\ allocs' = Append(allocs, [ptr |-> r.ptr, size |-> size])
          /\ ret' = Ret("aligned_alloc", align, size, 0, alloc_ptr, r.ptr, r.err, <<>>, <<>>)
    /\ UNCHANGED <<mem, captured_stdout, inst_wrapper, pc, live, outs, wcalls>>
    /\ UNCHANGED <<threads, daemon, response>>

\* BumpAllocator.aligned_free: reports success, touches nothing.
AlignedFree_rewinds(p) ==
    /\ pc = "returned"
    /\ ret' = Ret("aligned_free", p, 0, 0, alloc_ptr, 1, "", <<>>, <<>>)
    /\ alloc_ptr' = p
    /\ UNCHANGED <<mem, captured_stdout, inst_wrapper, pc, allocs, live, outs, wcalls, steps>>
    /\ UNCHANGED <<threads, daemon, response>>

AlignedFree(p) ==
    /\ pc = "returned"
    /\ ret' = Ret("aligned_free", p, 0, 0, alloc_ptr, 1, "", <<>>, <<>>)
    /\ UNCHANGED <<alloc_ptr, mem, captured_stdout, inst_wrapper, pc, allocs, live, outs, wcalls,
                   steps>>
    /\ UNCHANGED <<threads, daemon, response>>

(***************************************************************************)
(* Linear memory accessors                                                 *)
(***************************************************************************)
Max(S) == CHOOSE x \in S : \A y \in S : x >= y

\* A slice bound of a ctypes array of `size` items: a negative bound counts
\* from the end, and every bound is clamped into 0 .. size.
SliceIndex(i, size) ==
    IF i < 0 THEN (IF i + size < 0 THEN 0 ELSE i + size)
    ELSE IF i > size THEN size ELSE i

\* WasmInstance.read_bytes: bytes(buf[ptr : ptr + length]).
read_bytes(m, ptr, length) ==
    LET size == Len(m)
        start == SliceIndex(ptr, size)
        stop == SliceIndex(ptr + length, size)
    IN IF stop <= start THEN <<>> ELSE [i \in 1..(stop - start) |-> m[start + i]]

\* An item index of a ctypes array: a negative index counts from the end.
ItemIndex(i, size) == IF i < 0 THEN i + size ELSE i

\* WasmInstance.write_bytes: buf[ptr + i] = b for each byte in ascending
\* order; the first index outside the array raises IndexError and ends the
\* loop, the bytes before it stay stored.  Byte number j (from 0) goes to
\* ItemIndex(ptr + j, size); k bytes are stored before the first bad index.
\* Address a is last written by byte a - ptr (a plain index) or else by byte
\* a - ptr - size (an index counted from the end).
write_bytes_all_or_nothing(m, ptr, data) ==
    LET size == Len(m)
        n == Len(data)
        k == IF ItemIndex(ptr, size) < 0 \/ size - ptr <= 0 THEN 0
             ELSE IF n < size - ptr THEN n ELSE size - ptr
        j1(a) == a - ptr
        j2(a) == a - ptr - size
    IN IF k # n THEN [mem |-> m, err |-> "IndexError"]
       ELSE [mem |-> [x \in 1..size |->
                         IF j1(x - 1) >= 0 /\ j1(x - 1) < k THEN data[j1(x - 1) + 1]
                         ELSE IF j2(x - 1) >= 0 /\ j2(x - 1) < k THEN data[j2(x - 1) + 1]
                         ELSE m[x]],
             err |-> ""]

write_bytes(m, ptr, data) ==
    LET size == Len(m)
        n == Len(data)
        k == IF ItemIndex(ptr, size) < 0 \/ size - ptr <= 0 THEN 0
             ELSE IF n < size - ptr THEN n ELSE size - ptr
        j1(a) == a - ptr
        j2(a) == a - ptr - size
    IN [mem |-> [x \in 1..size |->
                    IF j1(x - 1) >= 0 /\ j1(x - 1) < k THEN data[j1(x - 1) + 1]
                    ELSE IF j2(x - 1) >= 0 /\ j2(x - 1) < k THEN data[j2(x - 1) + 1]
                    ELSE m[x]],
        err |-> IF k = n THEN "" ELSE "IndexError"]

\* The value of the three low bytes of a little-endian field.
LowValue(bs) == bs[1] + 256 * bs[2] + 65536 * bs[3]

\* struct.unpack("<Q", raw)[0], saturating at Huge.
unpack_Q(bs) ==
    IF (\A i \in 4..8 : bs[i] = 0) /\ LowValue(bs) < Huge THEN LowValue(bs) ELSE Huge

\* struct.unpack("<q", raw)[0], saturating at +-Huge.
unpack_q(bs) ==
    IF bs[8] < 128 THEN unpack_Q(bs)
    ELSE IF (\A i \in 4..8 : bs[i] = 255) /\ LowValue(bs) - 16777216 > -Huge
         THEN LowValue(bs) - 16777216
         ELSE -Huge

\* struct.pack("<q", value) for -Huge < value < Huge (two's complement).
pack_q(value) ==
    LET low == PyMod(value, 16777216)
        high == IF value < 0 THEN 255 ELSE 0
    IN <<low % 256, (low \div 256) % 256, (low \div 65536), high, high, high, high, high>>

\* WasmInstance.write_i64_le.
write_i64_le(m, ptr, value) == write_bytes(m, ptr, pack_q(value))

(***************************************************************************)
(* UTF-8                                                                   *)
(***************************************************************************)
REPLACEMENT == 65533   \* U+FFFD, what errors="replace" substitutes

\* str.encode("utf-8") of one code point (a scalar value).
EncodeChar(cp) ==
    IF cp < 128 THEN <<cp>>
    ELSE IF cp < 2048 THEN <<192 + (cp \div 64), 128 + (cp % 64)>>
    ELSE IF cp < 65536
         THEN <<224 + (cp \div 4096), 128 + ((cp \div 64) % 64), 128 + (cp % 64)>>
    ELSE <<240 + (cp \div 262144), 128 + ((cp \div 4096) % 64),
           128 + ((cp \div 64) % 64), 128 + (cp % 64)>>

RECURSIVE Utf8Encode(_)
Utf8Encode(s) ==
    IF Len(s) = 0 THEN <<>>
    ELSE IF Len(s) = 1 THEN EncodeChar(s[1])
    ELSE LET h == Len(s) \div 2
         IN Utf8Encode(SubSeq(s, 1, h)) \o Utf8Encode(SubSeq(s, h + 1, Len(s)))

\* The length of the sequence a lead byte announces; 0 for a byte that can
\* lead none (a continuation byte, 0xC0, 0xC1, 0xF5 and above).
SeqLen(b) ==
    IF b < 128 THEN 1
    ELSE IF b >= 194 /\ b <= 223 THEN 2
    ELSE IF b >= 224 /\ b <= 239 THEN 3
    ELSE IF b >= 240 /\ b <= 244 THEN 4
    ELSE 0

\* The range of the second byte after lead byte b (it excludes overlong
\* forms, surrogates and values above U+10FFFF).
SecondLo(b) == IF b = 224 THEN 160 ELSE IF b = 240 THEN 144 ELSE 128
SecondHi(b) == IF b = 237 THEN 159 ELSE IF b = 244 THEN 143 ELSE 191

\* One step of CPython's UTF-8 decoder at position i of raw: a decoded code
\* point and its length, or the length of the ill-formed part that one
\* replacement character stands for.
Utf8Step(raw, i) ==
    LET b == raw[i]
        n == SeqLen(b)
        ContOk(k) ==
            /\ i + k - 1 <= Len(raw)
            /\ LET x == raw[i + k - 1]
               IN IF k = 2 THEN x >= SecondLo(b) /\ x <= SecondHi(b)
                  ELSE x >= 128 /\ x <= 191
        good == IF n = 0 THEN 0
                ELSE Max({g \in 1..n : \A k \in 2..g : ContOk(k)})
        cp == IF n = 1 THEN b
              ELSE IF n = 2 THEN (b - 192) * 64 + (raw[i + 1] - 128)
              ELSE IF n = 3 THEN (b - 224) * 4096 + (raw[i + 1] - 128) * 64 + (raw[i + 2] - 128)
              ELSE (b - 240) * 262144 + (raw[i + 1] - 128) * 4096
                   + (raw[i + 2] - 128) * 64 + (raw[i + 3] - 128)
    IN IF n = 0 THEN [ok |-> FALSE, n |-> 1, cp |-> REPLACEMENT]
       ELSE IF good = n THEN [ok |-> TRUE, n |-> n, cp |-> cp]
       ELSE [ok |-> FALSE, n |-> good, cp |-> REPLACEMENT]

\* Whether the decoder, run from the first byte, begins a step at position
\* i.  A byte outside 0x80-0xBF always begins one; a byte inside begins one
\* unless the step of the nearest earlier byte outside that range (at most
\* three back) takes it as a continuation byte.
IsStart(raw, i) ==
    \/ raw[i] < 128
    \/ raw[i] > 191
    \/ LET prev == {j \in (IF i > 3 THEN i - 3 ELSE 1)..(i - 1) : raw[j] < 128 \/ raw[j] > 191}
       IN prev = {} \/ Max(prev) + Utf8Step(raw, Max(prev)).n <= i

\* bytes.decode("utf-8", errors="replace") of positions lo .. hi: the code
\* points of the decoder's steps, in order.
RECURSIVE DecodeRange(_, _, _)
DecodeRange(raw, lo, hi) ==
    IF lo > hi THEN <<>>
    ELSE IF lo = hi THEN (IF IsStart(raw, lo) THEN <<Utf8Step(raw, lo).cp>> ELSE <<>>)
    ELSE LET mid == (lo + hi) \div 2
         IN DecodeRange(raw, lo, mid) \o DecodeRange(raw, mid + 1, hi)

DecodeFrom(raw, i) == DecodeRange(raw, i, Len(raw))

\* Whether the strict decoder meets an ill-formed sequence from position i.
IllFormedFrom(raw, i) ==
    \E j \in i..Len(raw) : IsStart(raw, j) /\ ~Utf8Step(raw, j).ok

\* raw.decode("utf-8", errors="replace"): never raises.
decode_replace(raw) == [text |-> DecodeFrom(raw, 1), err |-> ""]

\* raw.decode("utf-8"): raises UnicodeDecodeError on ill-formed input.
decode_strict(raw) ==
    IF IllFormedFrom(raw, 1) THEN [text |-> <<>>, err |-> "UnicodeDecodeError"]
    ELSE [text |-> DecodeFrom(raw, 1), err |-> ""]

(***************************************************************************)
(* String struct marshaller                                                *)
(***************************************************************************)
\* The buffer write_string_struct stores at the data pointer.
data_buffer_no_nul(encoded) == encoded

data_buffer(encoded) == encoded \o <<0>>

\* The three fields write_string_struct stores at offsets 0, 8 and 16.
struct_fields_len_as_capacity(data_ptr, data_len) == <<data_ptr, data_len + 1, data_len + 1>>

struct_fields(data_ptr, data_len) == <<data_ptr, data_len, data_len + 1>>

\* WasmInstance.write_string_struct on memory m and cursor c.  A write_bytes
\* that raises ends the call: the allocations made stay made, the bytes
\* stored stay stored.
write_string_struct(m, c, s) ==
    LET encoded == Utf8Encode(s)
        data_len == Len(encoded)
        a1 == aligned_alloc(c, 1, data_len + 1)
        data_ptr == a1.ptr
        w1 == write_bytes(m, data_ptr, data_buffer(encoded))
        a2 == aligned_alloc(a1.cursor, STRING_STRUCT_ALIGN, STRING_STRUCT_SIZE)
        struct_ptr == a2.ptr
        f == struct_fields(data_ptr, data_len)
        w2 == write_i64_le(w1.mem, struct_ptr, f[1])
        w3 == write_i64_le(w2.mem, struct_ptr + 8, f[2])
        w4 == write_i64_le(w3.mem, struct_ptr + 16, f[3])
        out(w, cur, val) == [mem |-> w.mem, cursor |-> cur, val |-> val, err |-> w.err,
                             allocs |-> IF cur = a1.cursor
                                        THEN <<[ptr |-> a1.ptr, size |-> data_len + 1]>>
                                        ELSE <<[ptr |-> a1.ptr, size |-> data_len + 1],
                                               [ptr |-> a2.ptr, size |-> STRING_STRUCT_SIZE]>>]
    IN IF w1.err # "" THEN out(w1, a1.cursor, 0)
       ELSE IF w2.err # "" THEN out(w2, a2.cursor, 0)
       ELSE IF w3.err # "" THEN out(w3, a2.cursor, 0)
       ELSE IF w4.err # "" THEN out(w4, a2.cursor, 0)
       ELSE out(w4, a2.cursor, struct_ptr)

\* WasmInstance.alloc_string_struct on memory m and cursor c.
alloc_string_struct_no_clear(m, c) ==
    LET a == aligned_alloc(c, STRING_STRUCT_ALIGN, STRING_STRUCT_SIZE)
        w == write_bytes(m, a.ptr, <<>>)
    IN [mem |-> w.mem, cursor |-> a.cursor, val |-> IF w.err = "" THEN a.ptr ELSE 0,
        err |-> w.err, allocs |-> <<[ptr |-> a.ptr, size |-> STRING_STRUCT_SIZE]>>]

alloc_string_struct(m, c) ==
    LET a == aligned_alloc(c, STRING_STRUCT_ALIGN, STRING_STRUCT_SIZE)
        w == write_bytes(m, a.ptr, [i \in 1..STRING_STRUCT_SIZE |-> 0])
    IN [mem |-> w.mem, cursor |-> a.cursor, val |-> IF w.err = "" THEN a.ptr ELSE 0,
        err |-> w.err, allocs |-> <<[ptr |-> a.ptr, size |-> STRING_STRUCT_SIZE]>>]

\* capacity & SSO_FLAG, on the field's bytes.
uses_inline_low_byte(capacity) == capacity[1] >= SSO_FLAG_BYTE

uses_inline(capacity) == capacity[8] >= SSO_FLAG_BYTE

\* (capacity & SSO_LEN_MASK) >> 56, on the field's bytes.
inline_length(capacity) == capacity[8] % (SSO_LEN_MASK_BYTE + 1)

\* The test `length <= 0` that returns "" before any data is read.
is_empty_length_only_zero(length) == length = 0

is_empty_length(length) == length <= 0

\* raw.decode("utf-8") of read_string_struct.
struct_decode_lenient(raw) == decode_replace(raw)

struct_decode(raw) == decode_strict(raw)

\* WasmInstance.read_string_struct on memory m: the string returned, the
\* error raised, and the read_bytes calls made, in order.  An 8-byte field
\* read that returns fewer than 8 bytes makes struct.unpack raise.
read_string_struct(m, struct_ptr) ==
    LET capacity == read_bytes(m, struct_ptr + 16, 8)
        r1 == <<<<struct_ptr + 16, 8>>>>
        pf == read_bytes(m, struct_ptr, 8)
        r2 == Append(r1, <<struct_ptr, 8>>)
        lf == read_bytes(m, struct_ptr + 8, 8)
        r3 == Append(r2, <<struct_ptr + 8, 8>>)
        finish(data_ptr, length, reads) ==
            IF is_empty_length(length) THEN [text |-> <<>>, err |-> "", reads |-> reads]
            ELSE LET raw == read_bytes(m, data_ptr, length)
                     d == struct_decode(raw)
                 IN [text |-> d.text, err |-> d.err,
                     reads |-> Append(reads, <<data_ptr, length>>)]
    IN IF Len(capacity) # 8 THEN [text |-> <<>>, err |-> "struct.error", reads |-> r1]
       ELSE IF uses_inline(capacity) THEN finish(struct_ptr, inline_length(capacity), r1)
       ELSE IF Len(pf) # 8 THEN [text |-> <<>>, err |-> "struct.error", reads |-> r2]
       ELSE IF Len(lf) # 8 THEN [text |-> <<>>, err |-> "struct.error", reads |-> r3]
       ELSE finish(unpack_q(pf), unpack_q(lf), r3)

\* The host calls w.write_string_struct(s).
WriteStringStruct(s) ==
    /\ pc = "returned"
    /\ steps < MaxSteps
    /\ steps' = steps + 1
    /\ \E r \in {write_string_struct(mem, alloc_ptr, s)} :
          /\ mem' = r.mem
          /\ alloc_ptr' = r.cursor
          /\ allocs' = allocs \o r.allocs
          /\ live' = IF r.err = "" THEN Append(live, [ptr |-> r.val, s |-> s]) ELSE live
          /\ ret' = Ret("write_string_struct", 0, 0, 0, alloc_ptr, r.val, r.err, s, <<>>)
    /\ UNCHANGED <<captured_stdout, inst_wrapper, pc, outs, wcalls>>
    /\ UNCHANGED <<threads, daemon, response>>

\* The host calls w.alloc_string_struct().
AllocStringStruct ==
    /\ pc = "returned"
    /\ steps < MaxSteps
    /\ steps' = steps + 1
    /\ \E r \in {alloc_string_struct(mem, alloc_ptr)} :
          /\ mem' = r.mem
          /\ alloc_ptr' = r.cursor
          /\ allocs' = allocs \o r.allocs
          /\ outs' = IF r.err = "" THEN Append(outs, r.val) ELSE outs
          /\ ret' = Ret("alloc_string_struct", 0, 0, 0, alloc_ptr, r.val, r.err, <<>>, <<>>)
    /\ UNCHANGED <<captured_stdout, inst_wrapper, pc, live, wcalls>>
    /\ UNCHANGED <<threads, daemon, response>>

\* The host calls w.read_string_struct(struct_ptr).
ReadStringStruct(struct_ptr) ==
    /\ pc = "returned"
    /\ \E r \in {read_string_struct(mem, struct_ptr)} :
          ret' = Ret("read_string_struct", struct_ptr, 0, 0, alloc_ptr, 0, r.err, r.text, r.reads)
    /\ UNCHANGED <<alloc_ptr, mem, captured_stdout, inst_wrapper, pc, allocs, live, outs, wcalls,
                   steps>>
    /\ UNCHANGED <<threads, daemon, response>>

(***************************************************************************)
(* Guest exports that fill an output struct                                *)
(***************************************************************************)
Garbage == 170

\* The 24 bytes a guest export may leave in the output struct at p: inline
\* and heap forms, well formed and not.
GuestImages(p) ==
    LET junk == [i \in 1..8 |-> 255]
    IN { \* inline "hello"; bytes 5-15 are not part of the string
         <<104, 101, 108, 108, 111, 33, 33, 33>> \o junk \o <<0, 0, 0, 0, 0, 0, 0, 133>>,
         \* inline, length 0
         junk \o junk \o <<0, 0, 0, 0, 0, 0, 0, 128>>,
         \* inline, length 2, bytes that are not UTF-8
         <<255, 254, 0, 0, 0, 0, 0, 0>> \o junk \o <<0, 0, 0, 0, 0, 0, 0, 130>>,
         \* heap, length -1
         pack_q(p) \o junk \o pack_q(0),
         \* heap, length 0, pointer far outside memory
         <<255, 255, 255, 255, 255, 255, 255, 127>> \o pack_q(0) \o pack_q(0),
         \* heap, length 2, data C3 A9 inside the capacity field's own bytes
         pack_q(p + 17) \o pack_q(2) \o <<3, 195, 169, 0, 0, 0, 0, 0>>,
         \* heap, length 2, data FF 41: not UTF-8
         pack_q(p + 17) \o pack_q(2) \o <<3, 255, 65, 0, 0, 0, 0, 0>> }

\* The host calls a guest export through WasmInstance.call with the output
\* struct p; the guest stores a String struct there.
GuestFillsStruct(p, image) ==
    /\ pc = "returned"
    /\ steps < MaxSteps
    /\ steps' = steps + 1
    /\ mem' = write_bytes(mem, p, image).mem
    /\ ret' = Ret("call", p, 0, 0, alloc_ptr, 0, "", <<>>, <<>>)
    /\ UNCHANGED <<alloc_ptr, captured_stdout, inst_wrapper, pc, allocs, live, outs, wcalls>>
    /\ UNCHANGED <<threads, daemon, response>>

(***************************************************************************)
(* The marshaller on a seeded instance                                     *)
(***************************************************************************)
MemSize == 96            \* bytes of guest memory in the marshaller specification
HeapBases == {0, 5}
ShortStrings == {<<>>, <<65>>, <<233, 8364>>, <<128512>>, <<66, 0, 67>>}

InitStr ==
    /\ alloc_ptr \in HeapBases
    /\ mem = [a \in 1..MemSize |-> Garbage]
    /\ captured_stdout = <<>>
    /\ inst_wrapper = TRUE
    /\ pc = "returned"
    /\ ret = NoRet
    /\ allocs = <<>>
    /\ live = <<>>
    /\ outs = <<>>
    /\ wcalls = <<>>
    /\ steps = 0
    /\ threads = NoThreads
    /\ daemon = NoDaemon
    /\ response = NoResponse

StructPointers == {live[i].ptr : i \in 1..Len(live)} \cup {outs[i] : i \in 1..Len(outs)}

NextStr ==
    \/ \E s \in ShortStrings : WriteStringStruct(s)
    \/ AllocStringStruct
    \/ \E size \in {1, STRING_STRUCT_SIZE} : HostAlignedAlloc(1, size)
    \/ \E i \in 1..Len(outs) : \E image \in GuestImages(outs[i]) : GuestFillsStruct(outs[i], image)
    \/ \E p \in StructPointers : ReadStringStruct(p)

SpecStr == InitStr /\ [][NextStr]_vars

\* The 8-byte field at address a of the current memory.
Field(a) == SubSeq(mem, a + 1, a + 8)

\* The little-endian form of a value in 0 .. 2^24 - 1.
LE8(v) == <<v % 256, (v \div 256) % 256, (v \div 65536) % 256, 0, 0, 0, 0, 0>>

\* C5: whatever write_string_struct, alloc_string_struct and aligned_alloc
\* operations follow, every struct write_string_struct returned still decodes
\* to the string it was encoded from.
C5_EarlierStructsIntact ==
    \A i \in 1..Len(live) :
        LET r == read_string_struct(mem, live[i].ptr)
        IN r.err = "" /\ r.text = live[i].s

C5_Witness ==
    /\ steps = 3
    /\ Len(live) = 2
    /\ Len(outs) = 1
    /\ live[1].ptr < outs[1]
    /\ outs[1] < live[2].ptr
    /\ live[1].s = <<233, 8364>>

\* C6: write_string_struct(s) stores the n UTF-8 bytes of s and one NUL at
\* the data pointer d it allocated, and returns an 8-byte-aligned struct
\* holding d, n and n + 1 as little-endian fields at offsets 0, 8 and 16;
\* bit 63 of the capacity field is clear.
C6_HeapFormLayout ==
    (ret.op = "write_string_struct" /\ ret.err = "") =>
        LET sp == ret.val
            d == ret.c0
            enc == Utf8Encode(ret.text)
            n == Len(enc)
        IN /\ sp % 8 = 0
           /\ d + n + 1 <= sp
           /\ \A i \in 1..n : mem[d + i] = enc[i]
           /\ mem[d + n + 1] = 0
           /\ Field(sp) = LE8(d)
           /\ Field(sp + 8) = LE8(n)
           /\ Field(sp + 16) = LE8(n + 1)
           /\ mem[sp + 24] < 128

C6_Witness ==
    /\ ret.op = "write_string_struct"
    /\ ret.err = ""
    /\ ret.text = <<233, 8364>>
    /\ ret.c0 = 5
    /\ ret.val = 16

\* C7: read_string_struct picks the form from bit 63 of the capacity field
\* alone.  Bit set: the length is bits 56-60 and the bytes come from the
\* struct's base, whatever bytes 8-15 hold.  Bit clear: pointer from offset
\* 0, length from offset 8.  Capacity 0x85 << 56 decodes the 5 bytes at the
\* base.
C7_FlagSelectsForm ==
    (ret.op = "read_string_struct" /\ ret.err # "struct.error") =>
        LET sp == ret.a1
            top == mem[sp + 24]
            len == top % 32
        IN /\ (top >= 128 /\ len = 0) => (ret.reads = <<<<sp + 16, 8>>>> /\ ret.text = <<>>)
           /\ (top >= 128 /\ len > 0) =>
                 /\ ret.reads = <<<<sp + 16, 8>>, <<sp, len>>>>
                 /\ ret.err = "" => Utf8Encode(ret.text) = SubSeq(mem, sp + 1, sp + len)
           /\ top < 128 =>
                 /\ SubSeq(ret.reads, 1, 3) = <<<<sp + 16, 8>>, <<sp, 8>>, <<sp + 8, 8>>>>
                 /\ Len(ret.reads) = 4 =>
                        ret.reads[4] = <<unpack_q(Field(sp)), unpack_q(Field(sp + 8))>>
           /\ Field(sp + 16) = <<0, 0, 0, 0, 0, 0, 0, 133>> =>
                 (ret.err = "" => Utf8Encode(ret.text) = SubSeq(mem, sp + 1, sp + 5))

C7_Witness ==
    /\ ret.op = "read_string_struct"
    /\ Field(ret.a1 + 16) = <<0, 0, 0, 0, 0, 0, 0, 133>>
    /\ Field(ret.a1 + 8) = <<255, 255, 255, 255, 255, 255, 255, 255>>
    /\ ret.text = <<104, 101, 108, 108, 111>>

\* Whether the struct at sp holds a decoded length <= 0: an inline length of
\* zero, or a heap length field that is zero or has its sign bit set.
LengthNotPositive(sp) ==
    IF mem[sp + 24] >= 128 THEN mem[sp + 24] % 32 = 0
    ELSE mem[sp + 16] >= 128 \/ Field(sp + 8) = <<0, 0, 0, 0, 0, 0, 0, 0>>

\* C8: a decoded length <= 0 makes read_string_struct return "" with no
\* read at the data pointer: only the header fields are read.
C8_NonPositiveLengthReadsNothing ==
    (ret.op = "read_string_struct" /\ ret.err # "struct.error" /\ LengthNotPositive(ret.a1)) =>
        /\ ret.text = <<>>
        /\ ret.err = ""
        /\ Len(ret.reads) = (IF mem[ret.a1 + 24] >= 128 THEN 1 ELSE 3)
        /\ \A i \in 1..Len(ret.reads) : ret.reads[i][2] = 8

C8_Witness ==
    /\ ret.op = "read_string_struct"
    /\ mem[ret.a1 + 24] < 128
    /\ Field(ret.a1 + 8) = <<255, 255, 255, 255, 255, 255, 255, 255>>
    /\ ret.text = <<>>
    /\ ret.err = ""

\* Well-formed UTF-8, by the definition of the encoding: every sequence is
\* the encoding of the scalar value its payload bits spell.
PayloadLen(b) ==
    IF b < 128 THEN 1
    ELSE IF b >= 192 /\ b <= 223 THEN 2
    ELSE IF b >= 224 /\ b <= 239 THEN 3
    ELSE IF b >= 240 /\ b <= 247 THEN 4
    ELSE 0

Payload(raw, i, n) ==
    IF n = 1 THEN raw[i]
    ELSE IF n = 2 THEN (raw[i] % 32) * 64 + (raw[i + 1] % 64)
    ELSE IF n = 3 THEN (raw[i] % 16) * 4096 + (raw[i + 1] % 64) * 64 + (raw[i + 2] % 64)
    ELSE (raw[i] % 8) * 262144 + (raw[i + 1] % 64) * 4096 + (raw[i + 2] % 64) * 64
         + (raw[i + 3] % 64)

IsScalar(cp) == cp <= 1114111 /\ ~(cp >= 55296 /\ cp <= 57343)

RECURSIVE WellFormedFrom(_, _)
WellFormedFrom(raw, i) ==
    IF i > Len(raw) THEN TRUE
    ELSE LET n == PayloadLen(raw[i])
         IN /\ n > 0
            /\ i + n - 1 <= Len(raw)
            /\ IsScalar(Payload(raw, i, n))
            /\ EncodeChar(Payload(raw, i, n)) = SubSeq(raw, i, i + n - 1)
            /\ WellFormedFrom(raw, i + n)

WellFormed(raw) == WellFormedFrom(raw, 1)

\* The bytes the last read_string_struct selected, when it read any.
SelectedBytes ==
    LET sel == ret.reads[Len(ret.reads)] IN read_bytes(mem, sel[1], sel[2])

C9_IllFormedRaises ==
    (ret.op = "read_string_struct" /\ Len(ret.reads) \in {2, 4} /\ ~WellFormed(SelectedBytes)) =>
        (ret.err = "UnicodeDecodeError" /\ ret.text = <<>>)

\* C9: when the selected bytes are not valid UTF-8, read_string_struct raises
\* an encoding error, returns no string, and leaves memory, the cursor and
\* the captured-output log as they were.
C9_IllFormedFailsLoudly ==
    /\ []C9_IllFormedRaises
    /\ [][(ret'.op = "read_string_struct" /\ ret'.err = "UnicodeDecodeError") =>
              UNCHANGED <<mem, alloc_ptr, captured_stdout>>]_vars

C9_Witness ==
    /\ ret.op = "read_string_struct"
    /\ ret.err = "UnicodeDecodeError"
    /\ mem[ret.a1 + 24] = 130
    /\ SelectedBytes = <<255, 254>>

(***************************************************************************)
(* Round trips of strings of the lengths the SSO boundary makes special    *)
(***************************************************************************)
RoundTripMemSize == 704
RoundTripLengths == {0, 1, 22, 23, 24, 25, 100, 256}
Patterns == {<<97>>, <<233>>, <<65, 233, 8364, 128512>>}

Cycle(pat, n) == [i \in 1..n |-> pat[((i - 1) % Len(pat)) + 1]]

RoundTripStrings == {Cycle(pat, n) : pat \in Patterns, n \in RoundTripLengths}

InitRoundTrip ==
    /\ alloc_ptr \in 0..MaxBase
    /\ mem = [a \in 1..RoundTripMemSize |-> Garbage]
    /\ captured_stdout = <<>>
    /\ inst_wrapper = TRUE
    /\ pc = "returned"
    /\ ret = NoRet
    /\ allocs = <<>>
    /\ live = <<>>
    /\ outs = <<>>
    /\ wcalls = <<>>
    /\ steps = 0
    /\ threads = NoThreads
    /\ daemon = NoDaemon
    /\ response = NoResponse

NextRoundTrip ==
    \/ \E s \in RoundTripStrings : steps = 0 /\ WriteStringStruct(s)
    \/ \E p \in StructPointers : ReadStringStruct(p)

SpecRoundTrip == InitRoundTrip /\ [][NextRoundTrip]_vars

\* C4: decoding what write_string_struct encoded gives the string back, for
\* strings of 0, 1, 22, 23, 24, 25, 100 and 256 characters.
C4_RoundTrip ==
    ret.op = "read_string_struct" =>
        \A i \in 1..Len(live) :
            live[i].ptr = ret.a1 => (ret.err = "" /\ ret.text = live[i].s)

C4_Witness ==
    /\ ret.op = "read_string_struct"
    /\ Len(live) = 1
    /\ Len(live[1].s) = 256
    /\ live[1].s[4] = 128512
    /\ ret.text = live[1].s

(***************************************************************************)
(* The allocator alone: a fresh BumpAllocator(heap_base) and host calls    *)
(***************************************************************************)
InitAlloc ==
    /\ alloc_ptr \in 0..MaxBase
    /\ mem = <<>>
    /\ captured_stdout = <<>>
    /\ inst_wrapper = TRUE
    /\ pc = "returned"
    /\ ret = NoRet
    /\ allocs = <<>>
    /\ live = <<>>
    /\ outs = <<>>
    /\ wcalls = <<>>
    /\ steps = 0
    /\ threads = NoThreads
    /\ daemon = NoDaemon
    /\ response = NoResponse

NextAlloc ==
    \/ \E align \in Aligns, size \in Sizes : HostAlignedAlloc(align, size)
    \/ \E i \in 1..Len(allocs) : AlignedFree(allocs[i].ptr)

SpecAlloc == InitAlloc /\ [][NextAlloc]_vars

\* C1: from a fresh cursor, the pointers aligned_alloc returns are
\* non-decreasing in call order, and the ranges [p, p+size) of the calls with
\* size > 0 are pairwise disjoint.
C1_NonDecreasingDisjoint ==
    \A i, j \in 1..Len(allocs) :
        i < j =>
            /\ allocs[i].ptr <= allocs[j].ptr
            /\ (allocs[i].size > 0 /\ allocs[j].size > 0) =>
                   allocs[i].ptr + allocs[i].size <= allocs[j].ptr

C1_Witness ==
    /\ Len(allocs) = 3
    /\ \A i \in 1..3 : allocs[i].size > 0
    /\ allocs[2].ptr > allocs[1].ptr + allocs[1].size

\* C2: aligned_alloc(align, size) on cursor c returns the smallest multiple
\* of align that is >= c and leaves the cursor at that pointer plus size.
C2_SmallestMultiple ==
    (ret.op = "aligned_alloc" /\ ret.err = "") =>
        /\ ret.val % ret.a1 = 0
        /\ ret.val >= ret.c0
        /\ \A q \in ret.c0..ret.val : (q % ret.a1 = 0) => q = ret.val
        /\ ret.val = (IF ret.c0 % ret.a1 = 0 THEN ret.c0
                      ELSE ret.c0 + ret.a1 - (ret.c0 % ret.a1))
        /\ alloc_ptr = ret.val + ret.a2

C2_Witness ==
    /\ ret.op = "aligned_alloc"
    /\ ret.a1 = 8
    /\ ret.c0 % 8 = 3
    /\ ret.val = ret.c0 + 5
    /\ ret.a2 = STRING_STRUCT_SIZE

(***************************************************************************)
(* Import callbacks and the construction of the instance                   *)
(***************************************************************************)
\* The try block of write_fn on memory m and log `log`; inst tells whether
\* _inst_wrapper[0] has been set, stderr_ok whether sys.stderr.write returns
\* (it raises on a closed stream or on text the stream cannot encode).
\* read_bytes slices and decode replaces, so neither raises.  returned tells
\* whether a return statement of the block ran (val is its value); err is
\* the exception that leaves the block.
write_fn_try_logs_stderr(inst, m, log, fd, ptr, length, stderr_ok) ==
    IF ~inst THEN [log |-> log, returned |-> TRUE, val |-> -1, reads |-> <<>>, err |-> ""]
    ELSE LET data == read_bytes(m, ptr, length)
             text == decode_replace(data).text
             reads == <<<<ptr, length>>>>
         IN IF fd = 1 \/ fd = 2
            THEN [log |-> Append(log, text), returned |-> TRUE, val |-> length,
                  reads |-> reads, err |-> ""]
            ELSE [log |-> log, returned |-> FALSE, val |-> 0, reads |-> reads, err |-> ""]

write_fn_try_without_wrapper_test(inst, m, log, fd, ptr, length, stderr_ok) ==
    IF FALSE THEN [log |-> log, returned |-> TRUE, val |-> -1, reads |-> <<>>, err |-> ""]
    ELSE LET data == read_bytes(m, ptr, length)
             text == decode_replace(data).text
             reads == <<<<ptr, length>>>>
         IN IF fd = 1
            THEN [log |-> Append(log, text), returned |-> TRUE, val |-> length,
                  reads |-> reads, err |-> ""]
            ELSE IF fd = 2
            THEN (IF stderr_ok
                  THEN [log |-> log, returned |-> TRUE, val |-> length, reads |-> reads,
                        err |-> ""]
                  ELSE [log |-> log, returned |-> FALSE, val |-> 0, reads |-> reads,
                        err |-> "OSError"])
            ELSE [log |-> log, returned |-> FALSE, val |-> 0, reads |-> reads, err |-> ""]

write_fn_try(inst, m, log, fd, ptr, length, stderr_ok) ==
    IF ~inst THEN [log |-> log, returned |-> TRUE, val |-> -1, reads |-> <<>>, err |-> ""]
    ELSE LET data == read_bytes(m, ptr, length)
             text == decode_replace(data).text
             reads == <<<<ptr, length>>>>
         IN IF fd = 1
            THEN [log |-> Append(log, text), returned |-> TRUE, val |-> length,
                  reads |-> reads, err |-> ""]
            ELSE IF fd = 2
            THEN (IF stderr_ok
                  THEN [log |-> log, returned |-> TRUE, val |-> length, reads |-> reads,
                        err |-> ""]
                  ELSE [log |-> log, returned |-> FALSE, val |-> 0, reads |-> reads,
                        err |-> "OSError"])
            ELSE [log |-> log, returned |-> FALSE, val |-> 0, reads |-> reads, err |-> ""]

\* write_fn, the write import: the value returned to the guest, the log it
\* leaves, the read_bytes calls made, the exception that propagates (err) and
\* the one `except Exception: pass` swallowed (caught).
write_fn_length_checked_late(inst, m, log, fd, ptr, length, stderr_ok) ==
    LET t == write_fn_try(inst, m, log, fd, ptr, length, stderr_ok)
    IN IF t.returned
       THEN [log |-> t.log, val |-> t.val, reads |-> t.reads, err |-> "", caught |-> ""]
       ELSE [log |-> t.log, val |-> IF length = 0 THEN 0 ELSE -1, reads |-> t.reads,
             err |-> "", caught |-> t.err]

write_fn_uncaught(inst, m, log, fd, ptr, length, stderr_ok) ==
    IF length = 0 THEN [log |-> log, val |-> 0, reads |-> <<>>, err |-> "", caught |-> ""]
    ELSE LET t == write_fn_try(inst, m, log, fd, ptr, length, stderr_ok)
         IN IF t.returned
            THEN [log |-> t.log, val |-> t.val, reads |-> t.reads, err |-> "", caught |-> ""]
            ELSE [log |-> t.log, val |-> -1, reads |-> t.reads, err |-> t.err, caught |-> ""]

write_fn(inst, m, log, fd, ptr, length, stderr_ok) ==
    IF length = 0 THEN [log |-> log, val |-> 0, reads |-> <<>>, err |-> "", caught |-> ""]
    ELSE LET t == write_fn_try(inst, m, log, fd, ptr, length, stderr_ok)
         IN IF t.returned
            THEN [log |-> t.log, val |-> t.val, reads |-> t.reads, err |-> "", caught |-> ""]
            ELSE [log |-> t.log, val |-> -1, reads |-> t.reads, err |-> "", caught |-> t.err]

\* The guest calls the write import (during instantiation, or inside an
\* export the host called).
WriteImport(fd, ptr, length, stderr_ok) ==
    /\ steps < MaxSteps
    /\ steps' = steps + 1
    /\ \E r \in {write_fn(inst_wrapper, mem, captured_stdout, fd, ptr, length, stderr_ok)} :
          /\ captured_stdout' = r.log
          /\ ret' = Ret("write", fd, ptr, length, alloc_ptr, r.val, r.err, <<>>, r.reads)
          /\ wcalls' = Append(wcalls, [fd |-> fd, length |-> length, published |-> inst_wrapper,
                                       text |-> decode_replace(read_bytes(mem, ptr, length)).text,
                                       caught |-> r.caught])
    /\ UNCHANGED <<alloc_ptr, mem, inst_wrapper, pc, allocs, live, outs>>
    /\ UNCHANGED <<threads, daemon, response>>

\* The guest calls KGEN_CompilerRT_AlignedAlloc with two i64 values of its
\* choosing: aligned_alloc_fn hands them to the allocator unchecked.  A
\* Python error in the callback leaves the cursor as it was.
AlignedAllocImport(align, size) ==
    /\ steps < MaxSteps
    /\ steps' = steps + 1
    /\ \E r \in {aligned_alloc(alloc_ptr, align, size)} :
          /\ alloc_ptr' = r.cursor
          /\ allocs' = IF r.err = "" THEN Append(allocs, [ptr |-> r.ptr, size |-> size])
                       ELSE allocs
          /\ ret' = Ret("aligned_alloc_fn", align, size, 0, alloc_ptr, r.ptr, r.err, <<>>, <<>>)
    /\ UNCHANGED <<mem, captured_stdout, inst_wrapper, pc, live, outs, wcalls>>
    /\ UNCHANGED <<threads, daemon, response>>

\* The guest calls KGEN_CompilerRT_AlignedFree or free: nothing is reclaimed.
FreeImport(p) ==
    /\ ret' = Ret("free", p, 0, 0, alloc_ptr, 0, "", <<>>, <<>>)
    /\ UNCHANGED <<alloc_ptr, mem, captured_stdout, inst_wrapper, pc, allocs, live, outs, wcalls,
                   steps>>
    /\ UNCHANGED <<threads, daemon, response>>

\* The tail of _create_instance, from the return of linker.instantiate on.
FinishCreate_seeds_forward_only(heap_base) ==
    /\ pc = "instantiate"
    /\ pc' = "returned"
    /\ alloc_ptr' = (IF alloc_ptr > heap_base THEN alloc_ptr ELSE heap_base)
    /\ inst_wrapper' = TRUE
    /\ ret' = Ret("_create_instance", heap_base, 0, 0, alloc_ptr, 0, "", <<>>, <<>>)
    /\ UNCHANGED <<mem, captured_stdout, allocs, live, outs, wcalls, steps>>
    /\ UNCHANGED <<threads, daemon, response>>

\* linker.instantiate has returned: _create_instance reads __heap_base,
\* assigns it to alloc._ptr, builds the wrapper around the shared log and
\* publishes it in _inst_wrapper[0].
FinishCreate(heap_base) ==
    /\ pc = "instantiate"
    /\ pc' = "returned"
    /\ alloc_ptr' = heap_base
    /\ inst_wrapper' = TRUE
    /\ ret' = Ret("_create_instance", heap_base, 0, 0, alloc_ptr, 0, "", <<>>, <<>>)
    /\ UNCHANGED <<mem, captured_stdout, allocs, live, outs, wcalls, steps>>
    /\ UNCHANGED <<threads, daemon, response>>

(***************************************************************************)
(* A session: instantiation, then host calls and guest import calls        *)
(***************************************************************************)
\* The guest's memory: "hi", an e-acute, FF 41 (ill-formed), zeros.
SessionMemory == <<104, 105, 195, 169, 255, 65, 0, 0, 0, 0, 0, 0, 0, 0, 226, 130>>
SessionHeapBases == {0, 8}
\* (fd, ptr, length) triples the guest passes to write: texts for stdout,
\* stderr and an unknown descriptor, an empty text, ill-formed bytes, a
\* range running past the end of memory.
WriteCalls == {<<1, 0, 2>>, <<1, 4, 2>>, <<1, 0, 0>>, <<1, 14, 5>>, <<2, 0, 2>>, <<3, 2, 2>>}
\* (align, size) pairs the guest passes to the allocate import.
GuestAllocArgs == {<<8, 24>>, <<1, -8>>, <<-4, 1>>, <<0, 1>>}

InitSession ==
    /\ alloc_ptr = 0
    /\ mem = SessionMemory
    /\ captured_stdout = <<>>
    /\ inst_wrapper = FALSE
    /\ pc = "instantiate"
    /\ ret = NoRet
    /\ allocs = <<>>
    /\ live = <<>>
    /\ outs = <<>>
    /\ wcalls = <<>>
    /\ steps = 0
    /\ threads = NoThreads
    /\ daemon = NoDaemon
    /\ response = NoResponse

NextSession ==
    \/ \E heap_base \in SessionHeapBases : FinishCreate(heap_base)
    \/ \E a \in GuestAllocArgs : AlignedAllocImport(a[1], a[2])
    \/ \E w \in WriteCalls, stderr_ok \in BOOLEAN : WriteImport(w[1], w[2], w[3], stderr_ok)
    \/ FreeImport(alloc_ptr)
    \/ HostAlignedAlloc(STRING_STRUCT_ALIGN, STRING_STRUCT_SIZE)

SpecSession == InitSession /\ [][NextSession]_vars

\* C3: the allocator cursor never moves backward, whatever the host, the
\* guest's allocate and free imports and the seeding from __heap_base do.
C3_CursorNeverMovesBackward == [][alloc_ptr' >= alloc_ptr]_vars

\* The texts of the write calls in h that satisfy Keep, in call order.
TextsOf(h, Keep(_)) ==
    LET sel == SelectSeq(h, Keep) IN [i \in 1..Len(sel) |-> sel[i].text]

StdoutWrite(c) == c.fd = 1 /\ c.length # 0
PublishedStdoutWrite(c) == c.fd = 1 /\ c.length # 0 /\ c.published

IsPrefix(s, u) == Len(s) <= Len(u) /\ SubSeq(u, 1, Len(s)) = s

\* C10 as stated: the log is the decoded texts of all write calls with
\* fd = 1 and length # 0, in call order.
C10_LogIsAllStdoutWrites == captured_stdout = TextsOf(wcalls, StdoutWrite)

\* C10, amended: the log is the decoded texts of the write calls with fd = 1
\* and length # 0 made once the wrapper is published, in call order; no step
\* removes or reorders an entry.
C10_LogIsPublishedStdoutWrites ==
    /\ [](captured_stdout = TextsOf(wcalls, PublishedStdoutWrite))
    /\ [][IsPrefix(captured_stdout, captured_stdout')]_vars

C10_Witness ==
    /\ captured_stdout = <<<<104, 105>>, <<REPLACEMENT, 65>>>>
    /\ Len(wcalls) = 3
    /\ wcalls[2].fd = 2

(***************************************************************************)
(* The write import under every kind of argument                           *)
(***************************************************************************)
\* (fd, ptr, length) triples for write: every descriptor kind with a range
\* inside memory, running past its end, wholly outside it, starting at a
\* negative address, of negative length, and of length 0.
WideWriteCalls ==
    {<<1, 0, 2>>, <<1, 4, 2>>, <<1, 14, 5>>, <<1, -2, 2>>, <<1, 0, -1>>,
     <<2, 0, 2>>, <<2, 14, 5>>, <<3, 2, 2>>, <<3, 20, 4>>,
     <<1, 0, 0>>, <<2, 99, 0>>, <<3, -1, 0>>}

NextWrite ==
    \/ \E heap_base \in SessionHeapBases : FinishCreate(heap_base)
    \/ \E w \in WideWriteCalls, stderr_ok \in BOOLEAN : WriteImport(w[1], w[2], w[3], stderr_ok)

SpecWrite == InitSession /\ [][NextWrite]_vars

\* C11: write(fd, ptr, 0) returns 0 for every fd and every ptr, makes no
\* read of guest memory and leaves the captured-output log (and memory and
\* the cursor) as they were.
C11_ZeroLengthWrite ==
    /\ []((ret.op = "write" /\ ret.a3 = 0) => (ret.val = 0 /\ ret.err = "" /\ ret.reads = <<>>))
    /\ [][(ret'.op = "write" /\ ret'.a3 = 0) =>
              UNCHANGED <<captured_stdout, mem, alloc_ptr>>]_vars

C11_Witness ==
    /\ ret.op = "write"
    /\ ret.a1 = 2
    /\ ret.a2 = 99
    /\ ret.a3 = 0
    /\ ret.val = 0
    /\ inst_wrapper
    /\ Len(captured_stdout) = 1

\* Whether [ptr, ptr + length) lies inside the current linear memory.
InMemory(ptr, length) == ptr >= 0 /\ length >= 0 /\ ptr + length <= Len(mem)

\* C12: a write with length # 0 returns -1 and appends nothing to the log
\* when fd is neither 1 nor 2, and also when [ptr, ptr + length) is not
\* wholly inside memory, even for fd 1 or 2.
C12_BadFdOrBadRangeReturnsMinusOne ==
    [][(/\ ret'.op = "write"
        /\ ret'.a3 # 0
        /\ (ret'.a1 \notin {1, 2} \/ ~InMemory(ret'.a2, ret'.a3)))
       => (ret'.val = -1 /\ captured_stdout' = captured_stdout)]_vars

\* C13: whatever (fd, ptr, length) the guest passes - bad pointers, bytes
\* that are not UTF-8, a standard-error stream that fails - the write import
\* returns a value (0, -1 or length) and no exception leaves it.
C13_WriteNeverRaises ==
    ret.op = "write" => (ret.err = "" /\ ret.val \in {0, -1, ret.a3})

C13_Witness ==
    /\ ret.op = "write"
    /\ ret.a1 = 2
    /\ ret.a2 = 14
    /\ wcalls[Len(wcalls)].caught = "OSError"
    /\ ret.val = -1
    /\ ret.err = ""

(***************************************************************************)
(* The host's raw accessors on a memory smaller than what it allocates     *)
(***************************************************************************)
\* The host calls w.read_bytes(ptr, length).
ReadBytes(ptr, length) ==
    /\ pc = "returned"
    /\ ret' = Ret("read_bytes", ptr, length, 0, alloc_ptr, 0, "", read_bytes(mem, ptr, length),
                  <<<<ptr, length>>>>)
    /\ UNCHANGED <<alloc_ptr, mem, captured_stdout, inst_wrapper, pc, allocs, live, outs, wcalls,
                   steps>>
    /\ UNCHANGED <<threads, daemon, response>>

\* The host calls w.write_bytes(ptr, data).
WriteBytes(ptr, data) ==
    /\ pc = "returned"
    /\ steps < MaxSteps
    /\ steps' = steps + 1
    /\ \E r \in {write_bytes(mem, ptr, data)} :
          /\ mem' = r.mem
          /\ ret' = Ret("write_bytes", ptr, Len(data), 0, alloc_ptr, 0, r.err, data, <<>>)
    /\ UNCHANGED <<alloc_ptr, captured_stdout, inst_wrapper, pc, allocs, live, outs, wcalls>>
    /\ UNCHANGED <<threads, daemon, response>>

\* Addresses and lengths the host passes: ranges inside the 16 bytes of
\* memory, running past their end, wholly outside, and below address 0.
AccessPointers == {0, 14, 16, -2, -20}
AccessLengths == {0, 1, 5}
AccessData == {<<1>>, <<1, 2, 3, 4, 5>>}
BlockSizes == {8, STRING_STRUCT_SIZE}

InitMem ==
    /\ alloc_ptr \in SessionHeapBases
    /\ mem = SessionMemory
    /\ captured_stdout = <<>>
    /\ inst_wrapper = TRUE
    /\ pc = "returned"
    /\ ret = NoRet
    /\ allocs = <<>>
    /\ live = <<>>
    /\ outs = <<>>
    /\ wcalls = <<>>
    /\ steps = 0
    /\ threads = NoThreads
    /\ daemon = NoDaemon
    /\ response = NoResponse

NextMem ==
    \/ \E ptr \in AccessPointers, length \in AccessLengths : ReadBytes(ptr, length)
    \/ \E ptr \in AccessPointers, data \in AccessData : WriteBytes(ptr, data)
    \/ \E size \in BlockSizes : HostAlignedAlloc(1, size)
    \/ \E i \in 1..Len(allocs) : ReadBytes(allocs[i].ptr, allocs[i].size)
    \/ \E i \in 1..Len(allocs) : WriteBytes(allocs[i].ptr, [k \in 1..allocs[i].size |-> 7])
    \/ WriteStringStruct(<<65>>)

SpecMem == InitMem /\ [][NextMem]_vars

\* Whether an access of `length` bytes at ptr touches an address outside the
\* current linear memory.
OutOfMemory(ptr, length) == length > 0 /\ (ptr < 0 \/ ptr + length > Len(mem))

\* C14: read_bytes(offset, len) and write_bytes(offset, data) succeed when
\* the range lies inside memory (a read then returns the bytes stored there,
\* a write stores its data there); an access that touches an address outside
\* memory raises a bounds error, the read returning no bytes and the write
\* changing no byte.
C14_AccessorsCheckBounds ==
    [][/\ (ret'.op = "read_bytes" /\ InMemory(ret'.a1, ret'.a2)) =>
             (ret'.err = "" /\ ret'.text = SubSeq(mem, ret'.a1 + 1, ret'.a1 + ret'.a2))
       /\ (ret'.op = "read_bytes" /\ OutOfMemory(ret'.a1, ret'.a2)) =>
             (ret'.err = "IndexError" /\ ret'.text = <<>>)
       /\ (ret'.op = "write_bytes" /\ InMemory(ret'.a1, ret'.a2)) =>
             (ret'.err = "" /\ SubSeq(mem', ret'.a1 + 1, ret'.a1 + ret'.a2) = ret'.text)
       /\ (ret'.op = "write_bytes" /\ OutOfMemory(ret'.a1, ret'.a2)) =>
             (ret'.err = "IndexError" /\ mem' = mem)]_vars

\* C19: aligned_alloc checks no capacity - it returns the aligned pointer
\* and advances the cursor by size even when the block lies beyond the end
\* of memory - and the first read_bytes or write_bytes over such a block
\* raises a bounds error.
C19_NoCapacityCheckLaterBoundsError ==
    /\ (ret.op = "aligned_alloc") => (ret.err = "" /\ alloc_ptr = ret.val + ret.a2)
    /\ \A i \in 1..Len(allocs) :
          (/\ ret.op \in {"read_bytes", "write_bytes"}
           /\ ret.a1 = allocs[i].ptr
           /\ ret.a2 = allocs[i].size
           /\ allocs[i].ptr + allocs[i].size > Len(mem))
          => ret.err = "IndexError"

(***************************************************************************)
(* The floating-point min/max imports                                      *)
(***************************************************************************)
\* A float is NaN, or a number with value v; neg is its sign bit, which
\* tells -0.0 from 0.0.  +-Huge stand for the infinities.
Num(v, neg) == [nan |-> FALSE, v |-> v, neg |-> neg]
NaN == [nan |-> TRUE, v |-> 0, neg |-> FALSE]
Floats == {NaN, Num(-Huge, TRUE), Num(-1, TRUE), Num(0, TRUE), Num(0, FALSE), Num(1, FALSE),
           Num(Huge, FALSE)}

\* Python's x > y and x < y on floats: false when either operand is NaN;
\* -0.0 and 0.0 compare equal.
Gt(x, y) == ~x.nan /\ ~y.nan /\ x.v > y.v
Lt(x, y) == ~x.nan /\ ~y.nan /\ x.v < y.v

\* fminf_fn, fmaxf_fn, fmin_fn and fmax_fn.
fminf_fn(x, y) == IF Gt(x, y) THEN y ELSE x

fmaxf_fn(x, y) == IF Gt(x, y) THEN x ELSE y

fmin_fn(x, y) == IF Gt(x, y) THEN y ELSE x

fmax_fn_left_unless_less(x, y) == IF Lt(x, y) THEN y ELSE x

fmax_fn(x, y) == IF Gt(x, y) THEN x ELSE y

\* The guest calls one of the four imports.
FminfImport(x, y) ==
    /\ ret' = Ret("fminf", x, y, 0, alloc_ptr, fminf_fn(x, y), "", <<>>, <<>>)
    /\ UNCHANGED <<alloc_ptr, mem, captured_stdout, inst_wrapper, pc, allocs, live, outs, wcalls,
                   steps>>
    /\ UNCHANGED <<threads, daemon, response>>

FmaxfImport(x, y) ==
    /\ ret' = Ret("fmaxf", x, y, 0, alloc_ptr, fmaxf_fn(x, y), "", <<>>, <<>>)
    /\ UNCHANGED <<alloc_ptr, mem, captured_stdout, inst_wrapper, pc, allocs, live, outs, wcalls,
                   steps>>
    /\ UNCHANGED <<threads, daemon, response>>

FminImport(x, y) ==
    /\ ret' = Ret("fmin", x, y, 0, alloc_ptr, fmin_fn(x, y), "", <<>>, <<>>)
    /\ UNCHANGED <<alloc_ptr, mem, captured_stdout, inst_wrapper, pc, allocs, live, outs, wcalls,
                   steps>>
    /\ UNCHANGED <<threads, daemon, response>>

FmaxImport(x, y) ==
    /\ ret' = Ret("fmax", x, y, 0, alloc_ptr, fmax_fn(x, y), "", <<>>, <<>>)
    /\ UNCHANGED <<alloc_ptr, mem, captured_stdout, inst_wrapper, pc, allocs, live, outs, wcalls,
                   steps>>
    /\ UNCHANGED <<threads, daemon, response>>

NextFloat ==
    \/ \E x \in Floats, y \in Floats : FminfImport(x, y)
    \/ \E x \in Floats, y \in Floats : FmaxfImport(x, y)
    \/ \E x \in Floats, y \in Floats : FminImport(x, y)
    \/ \E x \in Floats, y \in Floats : FmaxImport(x, y)

SpecFloat == InitMem /\ [][NextFloat]_vars

\* C15: fmin and fminf return the left operand if left < right and the
\* right operand otherwise; hence min(NaN, y) = y and min(x, NaN) is NaN for
\* all non-NaN x and y.
C15_MinLeftIfLess ==
    ret.op \in {"fmin", "fminf"} =>
        /\ ret.val = (IF Lt(ret.a1, ret.a2) THEN ret.a1 ELSE ret.a2)
        /\ (ret.a1.nan /\ ~ret.a2.nan) => ret.val = ret.a2
        /\ (~ret.a1.nan /\ ret.a2.nan) => ret.val.nan

\* C16: fmax and fmaxf return the left operand if left > right and the
\* right operand otherwise; hence max(NaN, y) = y and max(x, NaN) is NaN for
\* all non-NaN x and y.
C16_MaxLeftIfGreater ==
    ret.op \in {"fmax", "fmaxf"} =>
        /\ ret.val = (IF Gt(ret.a1, ret.a2) THEN ret.a1 ELSE ret.a2)
        /\ (ret.a1.nan /\ ~ret.a2.nan) => ret.val = ret.a2
        /\ (~ret.a1.nan /\ ret.a2.nan) => ret.val.nan

C16_Witness ==
    /\ ret.op = "fmax"
    /\ ret.a1 = NaN
    /\ ret.a2 = Num(1, FALSE)
    /\ ret.val = Num(1, FALSE)

(***************************************************************************)
(* Calls by name, reclamation and the stub imports                         *)
(***************************************************************************)
\* What the instance exports: a function that prints, the linear memory and
\* the heap-base global.  exports(store).get(name) gives None for any other
\* name.
GuestExports == [print_static_string |-> "Func", memory |-> "Memory", __heap_base |-> "Global"]
CallNames == {"print_static_string", "memory", "__heap_base", "no_such_export"}

exports_get(name) == IF name \in DOMAIN GuestExports THEN GuestExports[name] ELSE "None"

\* WasmInstance.call up to the call of the function: the exception the two
\* assert statements raise, its message, and whether the function is run.
call(name) ==
    LET fn == exports_get(name)
    IN IF fn = "None"
       THEN [err |-> "AssertionError", msg |-> "WASM export not found", runs |-> FALSE]
       ELSE IF fn # "Func"
       THEN [err |-> "AssertionError", msg |-> "is not a function", runs |-> FALSE]
       ELSE [err |-> "", msg |-> "", runs |-> TRUE]

\* The host calls w.call(name) or w.<name>().  The one function export
\* writes the two bytes at address 0 to standard output through the write
\* import and returns nothing.
Call(name) ==
    /\ pc = "returned"
    /\ steps < MaxSteps
    /\ steps' = steps + 1
    /\ \E c \in {call(name)} :
          IF c.runs
          THEN \E r \in {write_fn(inst_wrapper, mem, captured_stdout, 1, 0, 2, TRUE)} :
                  /\ captured_stdout' = r.log
                  /\ wcalls' = Append(wcalls, [fd |-> 1, length |-> 2, published |-> inst_wrapper,
                                               text |-> decode_replace(read_bytes(mem, 0, 2)).text,
                                               caught |-> r.caught])
                  /\ ret' = Ret("call", name, 0, 0, alloc_ptr, 0, "", "", <<>>)
          ELSE /\ ret' = Ret("call", name, 0, 0, alloc_ptr, 0, c.err, c.msg, <<>>)
               /\ UNCHANGED <<captured_stdout, wcalls>>
    /\ UNCHANGED <<alloc_ptr, mem, inst_wrapper, pc, allocs, live, outs>>
    /\ UNCHANGED <<threads, daemon, response>>

\* The stub imports and the constant each returns: get_stack_trace, dup_fn,
\* fdopen_fn, fflush_fn, fclose_fn and fprintf_fn.
StubReturns == [get_stack_trace |-> 0, dup_fn |-> 1, fdopen_fn |-> 1, fflush_fn |-> 1,
                fclose_fn |-> 1, fprintf_fn |-> 0]

\* The guest calls a stub import: its arguments are ignored.
StubImport(name, arg) ==
    /\ ret' = Ret(name, arg, 0, 0, alloc_ptr, StubReturns[name], "", <<>>, <<>>)
    /\ UNCHANGED <<alloc_ptr, mem, captured_stdout, inst_wrapper, pc, allocs, live, outs, wcalls,
                   steps>>
    /\ UNCHANGED <<threads, daemon, response>>

StubArgs == {-1, 0, 1, 8}

NextFacade ==
    \/ \E name \in CallNames : Call(name)
    \/ \E size \in BlockSizes : HostAlignedAlloc(STRING_STRUCT_ALIGN, size)
    \/ \E s \in {<<65>>} : WriteStringStruct(s)
    \/ \E i \in 1..Len(allocs) : AlignedFree(allocs[i].ptr)
    \/ \E i \in 1..Len(allocs) : FreeImport(allocs[i].ptr)
    \/ \E name \in DOMAIN StubReturns, arg \in StubArgs : StubImport(name, arg)

InitFacade ==
    /\ alloc_ptr \in SessionHeapBases
    /\ mem = [a \in 1..MemSize |-> Garbage]
    /\ captured_stdout = <<>>
    /\ inst_wrapper = TRUE
    /\ pc = "returned"
    /\ ret = NoRet
    /\ allocs = <<>>
    /\ live = <<>>
    /\ outs = <<>>
    /\ wcalls = <<>>
    /\ steps = 0
    /\ threads = NoThreads
    /\ daemon = NoDaemon
    /\ response = NoResponse

SpecFacade == InitFacade /\ [][NextFacade]_vars

\* C17: call(name) fails when the guest has no export of that name and when
\* the export is not a function; the error of the first case is a variant
\* different from the error of the second; a failing call runs no guest code
\* and changes no harness state.
C17_DistinctLookupFailures ==
    /\ [](ret.op = "call" =>
            /\ exports_get(ret.a1) # "Func" => ret.err # ""
            /\ exports_get(ret.a1) = "None" =>
                  \A n \in CallNames :
                      exports_get(n) \notin {"None", "Func"} => call(n).err # ret.err)
    /\ [][(ret'.op = "call" /\ ret'.err # "") =>
              UNCHANGED <<alloc_ptr, mem, captured_stdout, allocs, live, outs, wcalls>>]_vars

\* The operations that reclaim nothing and the stubs.
NoOps == {"aligned_free", "free"} \cup DOMAIN StubReturns

\* C20: aligned_free (which returns 1), the deallocate and free imports and
\* the six stub imports leave the cursor, guest memory and the captured
\* output log unchanged whatever their argument, so no block handed out
\* earlier is handed out again.
C20_NoOpsReclaimNothing ==
    /\ [](ret.op = "aligned_free" => ret.val = 1)
    /\ [][ret'.op \in NoOps => UNCHANGED <<alloc_ptr, mem, captured_stdout>>]_vars
    /\ [](\A i, j \in 1..Len(allocs) :
              i < j => allocs[i].ptr + allocs[i].size <= allocs[j].ptr)

C20_Witness ==
    /\ ret.op = "aligned_free"
    /\ Len(allocs) = 2
    /\ ret.a1 = allocs[1].ptr
    /\ ret.val = 1
    /\ alloc_ptr = allocs[2].ptr + allocs[2].size
    /\ Len(captured_stdout) = 1

(***************************************************************************)
(* Construction, then the host's first operations                          *)
(***************************************************************************)
InitCreate ==
    /\ alloc_ptr = 0
    /\ mem = [a \in 1..MemSize |-> Garbage]
    /\ captured_stdout = <<>>
    /\ inst_wrapper = FALSE
    /\ pc = "instantiate"
    /\ ret = NoRet
    /\ allocs = <<>>
    /\ live = <<>>
    /\ outs = <<>>
    /\ wcalls = <<>>
    /\ steps = 0
    /\ threads = NoThreads
    /\ daemon = NoDaemon
    /\ response = NoResponse

NextCreate ==
    \/ \E heap_base \in SessionHeapBases : FinishCreate(heap_base)
    \/ \E size \in {3, STRING_STRUCT_SIZE} : AlignedAllocImport(STRING_STRUCT_ALIGN, size)
    \/ WriteImport(1, 0, 2, TRUE)
    \/ HostAlignedAlloc(STRING_STRUCT_ALIGN, STRING_STRUCT_SIZE)
    \/ AllocStringStruct
    \/ WriteStringStruct(<<65>>)
    \/ \E p \in StructPointers : ReadStringStruct(p)
    \/ \E name \in CallNames : Call(name)

SpecCreate == InitCreate /\ [][NextCreate]_vars

\* The operations the host starts through the wrapper.
HostOps == {"aligned_alloc", "aligned_free", "read_bytes", "write_bytes", "write_string_struct",
            "alloc_string_struct", "read_string_struct", "call"}

\* C18: until _create_instance has seeded the cursor and returned the
\* wrapper, no marshaller operation and no host-started export call runs and
\* the wrapper is not published; at the step where it returns, the cursor is
\* the guest's heap base, whatever the guest allocated while it was being
\* instantiated.
C18_SeededBeforeUse ==
    /\ [](pc = "instantiate" => (~inst_wrapper /\ ret.op \notin HostOps /\ live = <<>>
                                 /\ outs = <<>>))
    /\ [](ret.op = "_create_instance" => (alloc_ptr = ret.a1 /\ inst_wrapper /\ pc = "returned"))
    /\ [][(pc = "instantiate" /\ pc' = "returned") =>
              (ret'.op = "_create_instance" /\ alloc_ptr' = ret'.a1)]_vars

C18_Witness ==
    /\ ret.op = "_create_instance"
    /\ Len(allocs) = 2
    /\ ret.c0 = 48
    /\ ret.a1 = 8
    /\ alloc_ptr = 8

(***************************************************************************)
(* Struct-sized allocations from a seeded cursor                           *)
(***************************************************************************)
\* Heap bases the allocator is seeded with: multiples of 8 and others.
SeedBases == {0, 5, 8, 16, 21, 1000}

InitSeeded ==
    /\ alloc_ptr \in SeedBases
    /\ mem = <<>>
    /\ captured_stdout = <<>>
    /\ inst_wrapper = TRUE
    /\ pc = "returned"
    /\ ret = NoRet
    /\ allocs = <<>>
    /\ live = <<>>
    /\ outs = <<>>
    /\ wcalls = <<>>
    /\ steps = 0
    /\ threads = NoThreads
    /\ daemon = NoDaemon
    /\ response = NoResponse

NextSeeded ==
    \/ HostAlignedAlloc(STRING_STRUCT_ALIGN, STRING_STRUCT_SIZE)
    \/ \E size \in Sizes : HostAlignedAlloc(1, size)
    \/ \E i \in 1..Len(allocs) : AlignedFree(allocs[i].ptr)

SpecSeeded == InitSeeded /\ [][NextSeeded]_vars

\* A step that is the second of two successive aligned_alloc(8, 24) calls on
\* a freshly seeded allocator: ret holds the first call (made on the base,
\* ret.c0), ret' the second.
TwoStructAllocs ==
    /\ ret.op = "aligned_alloc"
    /\ ret.a1 = STRING_STRUCT_ALIGN
    /\ ret.a2 = STRING_STRUCT_SIZE
    /\ Len(allocs) = 1
    /\ ret'.op = "aligned_alloc"
    /\ ret'.a1 = STRING_STRUCT_ALIGN
    /\ ret'.a2 = STRING_STRUCT_SIZE

\* C22 as stated: from every base B, two successive aligned_alloc(8, 24)
\* calls return B and then B + 24.
C22_TwoAllocsFromAnyBase ==
    [][TwoStructAllocs => (ret.val = ret.c0 /\ ret'.val = ret.c0 + STRING_STRUCT_SIZE)]_vars

\* C22, amended: from a base B that is a multiple of 8 the two calls return
\* B and B + 24; from any other base they return A and A + 24, A being the
\* next multiple of 8 above B.
C22_TwoAllocsFromAlignedBase ==
    [][TwoStructAllocs =>
          LET B == ret.c0
              A == IF B % 8 = 0 THEN B ELSE B + 8 - (B % 8)
          IN ret.val = A /\ ret'.val = A + STRING_STRUCT_SIZE]_vars

C22_Witness ==
    /\ ret.op = "aligned_alloc"
    /\ ret.a1 = STRING_STRUCT_ALIGN
    /\ ret.c0 = 40
    /\ allocs = <<[ptr |-> 16, size |-> 24], [ptr |-> 40, size |-> 24]>>
    /\ alloc_ptr = 64

\* C29: a write with length # 0 that the guest makes while the module is
\* being instantiated, before _inst_wrapper[0] is set, returns -1 whatever
\* the fd, reads no memory and appends nothing: the log is still empty.
C29_WriteBeforePublication ==
    (ret.op = "write" /\ ret.a3 # 0 /\ ~inst_wrapper) =>
        (ret.val = -1 /\ ret.reads = <<>> /\ captured_stdout = <<>> /\ pc = "instantiate")

C29_Witness ==
    /\ ret.op = "write"
    /\ ret.a1 = 1
    /\ ret.a2 = 0
    /\ ret.a3 = 2
    /\ ret.val = -1
    /\ ~inst_wrapper
    /\ Len(wcalls) = 3
    /\ \A i \in 1..3 : wcalls[i].length # 0

\* C30: write_bytes stores in ascending address order and stops at the
\* first address past the end of memory: when it raises, every byte of the
\* data that had an address inside memory is stored and no other byte has
\* changed.  A write_string_struct that raises while writing has made at
\* least one allocation, the cursor stands after the last one made, and the
\* bytes stored before the error stay stored.
C30_NoRollback ==
    /\ [][(/\ ret'.op = "write_bytes"
           /\ ret'.a1 >= 0
           /\ ret'.a1 + ret'.a2 > Len(mem))
          => /\ ret'.err = "IndexError"
             /\ \A a \in 0..(Len(mem) - 1) :
                   mem'[a + 1] = (IF a >= ret'.a1 THEN ret'.text[a - ret'.a1 + 1] ELSE mem[a + 1])]_vars
    /\ [][(ret'.op = "write_string_struct" /\ ret'.err # "")
          => /\ Len(allocs') > Len(allocs)
             /\ SubSeq(allocs', 1, Len(allocs)) = allocs
             /\ alloc_ptr' = allocs'[Len(allocs')].ptr + allocs'[Len(allocs')].size
             /\ alloc_ptr' > alloc_ptr
             /\ allocs'[Len(allocs) + 1].ptr < Len(mem) =>
                    mem'[allocs'[Len(allocs) + 1].ptr + 1] = Utf8Encode(ret'.text)[1]
             /\ live' = live]_vars

C30_Witness ==
    /\ ret.op = "write_string_struct"
    /\ ret.err = "IndexError"
    /\ ret.c0 = 0
    /\ alloc_ptr = 32
    /\ mem[1] = 65
    /\ mem[2] = 0
    /\ SubSeq(mem, 9, 16) = <<0, 0, 0, 0, 0, 0, 0, 0>>
    /\ live = <<>>

\* Whether the 24 bytes of the struct at p are all zero in memory m.
ZeroStruct(m, p) == \A i \in 1..STRING_STRUCT_SIZE : m[p + i] = 0

\* C28: the struct alloc_string_struct returns is 8-byte aligned and holds
\* 24 zero bytes; no operation other than a guest call changes them; and
\* while they are zero read_string_struct takes the heap form with length 0
\* and returns the empty string after reading the header fields only.
C28_EmptyStruct ==
    /\ []((ret.op = "alloc_string_struct" /\ ret.err = "") =>
              /\ ret.val % 8 = 0
              /\ ret.val >= ret.c0
              /\ ZeroStruct(mem, ret.val)
              /\ read_string_struct(mem, ret.val) =
                     [text |-> <<>>, err |-> "",
                      reads |-> <<<<ret.val + 16, 8>>, <<ret.val, 8>>, <<ret.val + 8, 8>>>>])
    /\ [][ret'.op # "call" =>
              \A i \in 1..Len(outs) : ZeroStruct(mem, outs[i]) => ZeroStruct(mem', outs[i])]_vars
    /\ []((/\ ret.op = "read_string_struct"
           /\ \E i \in 1..Len(outs) : outs[i] = ret.a1
           /\ ZeroStruct(mem, ret.a1))
          => (ret.text = <<>> /\ ret.err = "" /\ Len(ret.reads) = 3))

C28_Witness ==
    /\ ret.op = "read_string_struct"
    /\ Len(outs) = 1
    /\ outs[1] = ret.a1
    /\ ZeroStruct(mem, ret.a1)
    /\ Len(live) = 2
    /\ live[1].ptr < ret.a1
    /\ ret.a1 < live[2].ptr
    /\ ret.text = <<>>

(***************************************************************************)
(* Two threads inside BumpAllocator.aligned_alloc, no lock                 *)
(***************************************************************************)
\* A thread's position in aligned_alloc and its locals.  An augmented
\* assignment self._ptr += k is a load of self._ptr and a later store, and
\* another thread may run between the two.  overlapped records whether the
\* call ran while the other thread's call was in progress.
ThreadIds == {1, 2}
IdleThread == [pc |-> "idle", align |-> 0, size |-> 0, remainder |-> 0, tmp |-> 0, ptr |-> 0,
               overlapped |-> FALSE]
Running(t) == threads[t].pc \notin {"idle", "done"}

harness_vars == <<mem, captured_stdout, inst_wrapper, pc, live, outs, wcalls, steps, daemon,
                  response>>

\* Thread t enters aligned_alloc(align, size).
ThreadCall(t, align, size) ==
    /\ threads[t].pc = "idle"
    /\ threads' = [u \in ThreadIds |->
                      IF u = t
                      THEN [IdleThread EXCEPT !.pc = "remainder", !.align = align, !.size = size,
                                              !.overlapped = \E v \in ThreadIds : Running(v)]
                      ELSE [threads[u] EXCEPT !.overlapped = @ \/ Running(u)]]
    /\ UNCHANGED <<alloc_ptr, ret, allocs>>
    /\ UNCHANGED harness_vars

\* remainder = self._ptr % align
ThreadRemainder(t) ==
    /\ threads[t].pc = "remainder"
    /\ threads' = [threads EXCEPT ![t].remainder = PyMod(alloc_ptr, threads[t].align),
                                  ![t].pc = IF PyMod(alloc_ptr, threads[t].align) # 0
                                            THEN "pad_load" ELSE "take"]
    /\ UNCHANGED <<alloc_ptr, ret, allocs>>
    /\ UNCHANGED harness_vars

\* self._ptr += align - remainder: the load
ThreadPadLoad(t) ==
    /\ threads[t].pc = "pad_load"
    /\ threads' = [threads EXCEPT ![t].tmp = alloc_ptr, ![t].pc = "pad_store"]
    /\ UNCHANGED <<alloc_ptr, ret, allocs>>
    /\ UNCHANGED harness_vars

\* self._ptr += align - remainder: the store
ThreadPadStore(t) ==
    /\ threads[t].pc = "pad_store"
    /\ alloc_ptr' = threads[t].tmp + (threads[t].align - threads[t].remainder)
    /\ threads' = [threads EXCEPT ![t].pc = "take"]
    /\ UNCHANGED <<ret, allocs>>
    /\ UNCHANGED harness_vars

\* ptr = self._ptr
ThreadTake(t) ==
    /\ threads[t].pc = "take"
    /\ threads' = [threads EXCEPT ![t].ptr = alloc_ptr, ![t].pc = "advance_load"]
    /\ UNCHANGED <<alloc_ptr, ret, allocs>>
    /\ UNCHANGED harness_vars

\* self._ptr += size: the load
ThreadAdvanceLoad(t) ==
    /\ threads[t].pc = "advance_load"
    /\ threads' = [threads EXCEPT ![t].tmp = alloc_ptr, ![t].pc = "advance_store"]
    /\ UNCHANGED <<alloc_ptr, ret, allocs>>
    /\ UNCHANGED harness_vars

\* self._ptr += size: the store
ThreadAdvanceStore_drops(t) ==
    /\ threads[t].pc = "advance_store"
    /\ threads' = [threads EXCEPT ![t].pc = "return"]
    /\ UNCHANGED <<alloc_ptr, ret, allocs>>
    /\ UNCHANGED harness_vars

ThreadAdvanceStore(t) ==
    /\ threads[t].pc = "advance_store"
    /\ alloc_ptr' = threads[t].tmp + threads[t].size
    /\ threads' = [threads EXCEPT ![t].pc = "return"]
    /\ UNCHANGED <<ret, allocs>>
    /\ UNCHANGED harness_vars

\* return ptr
ThreadReturn(t) ==
    /\ threads[t].pc = "return"
    /\ threads' = [threads EXCEPT ![t].pc = "done"]
    /\ allocs' = Append(allocs, [ptr |-> threads[t].ptr, size |-> threads[t].size])
    /\ ret' = Ret("aligned_alloc", threads[t].align, threads[t].size, t, alloc_ptr,
                  threads[t].ptr, "", <<>>, <<>>)
    /\ UNCHANGED alloc_ptr
    /\ UNCHANGED harness_vars

RaceRequests == {<<STRING_STRUCT_ALIGN, STRING_STRUCT_SIZE>>, <<1, 3>>}

InitRace ==
    /\ alloc_ptr \in HeapBases
    /\ mem = <<>>
    /\ captured_stdout = <<>>
    /\ inst_wrapper = TRUE
    /\ pc = "returned"
    /\ ret = NoRet
    /\ allocs = <<>>
    /\ live = <<>>
    /\ outs = <<>>
    /\ wcalls = <<>>
    /\ steps = 0
    /\ threads = [t \in ThreadIds |-> IdleThread]
    /\ daemon = NoDaemon
    /\ response = NoResponse

NextRace ==
    \E t \in ThreadIds :
        \/ \E r \in RaceRequests : ThreadCall(t, r[1], r[2])
        \/ ThreadRemainder(t)
        \/ ThreadPadLoad(t)
        \/ ThreadPadStore(t)
        \/ ThreadTake(t)
        \/ ThreadAdvanceLoad(t)
        \/ ThreadAdvanceStore(t)
        \/ ThreadReturn(t)

SpecRace == InitRace /\ [][NextRace]_vars

BothReturned == \A t \in ThreadIds : threads[t].pc = "done"

\* The blocks the two calls returned share an address.
RangesOverlap ==
    /\ allocs[1].ptr < allocs[2].ptr + allocs[2].size
    /\ allocs[2].ptr < allocs[1].ptr + allocs[1].size

\* The cursor has advanced from the lower of the two pointers by less than
\* the two sizes together.
AdvanceLost ==
    LET low == IF allocs[1].ptr < allocs[2].ptr THEN allocs[1].ptr ELSE allocs[2].ptr
    IN alloc_ptr - low < allocs[1].size + allocs[2].size

\* C21: without a lock aligned_alloc is safe only when calls do not overlap
\* in time.  Two calls that ran one after the other return disjoint blocks
\* in call order and leave the cursor after the second block; two calls
\* whose steps interleave can return overlapping blocks and lose a cursor
\* advance (C21_Witness is such an outcome).
C21_OnlySerialCallsAreSafe ==
    (BothReturned /\ \A t \in ThreadIds : ~threads[t].overlapped) =>
        /\ ~RangesOverlap
        /\ ~AdvanceLost
        /\ allocs[1].ptr + allocs[1].size <= allocs[2].ptr
        /\ alloc_ptr = allocs[2].ptr + allocs[2].size

C21_Witness ==
    /\ BothReturned
    /\ \A t \in ThreadIds : threads[t].overlapped /\ threads[t].size = STRING_STRUCT_SIZE
    /\ RangesOverlap
    /\ AdvanceLost
    /\ allocs[1].ptr = allocs[2].ptr
    /\ alloc_ptr = allocs[1].ptr + STRING_STRUCT_SIZE


\* ---------------------------------------------------------------------
\* The disk-provisioning daemon (modules/nixos/veo/dmcryptd.py).
\*
\* daemon.pc is the statement the accept loop is at, daemon.loop_device the
\* module-level name loop_device (it keeps its value from one request to
\* the next and is unbound until `losetup -f` has succeeded once),
\* daemon.n the number of close attempts the retry loop has made,
\* daemon.ran the commands and sends of the current request in the order
\* they ran, daemon.conns one record per accepted connection and
\* daemon.error the exception that ended the process, if any.  Every
\* command exits with success or failure, chosen by the environment.
wasm_vars == <<alloc_ptr, mem, captured_stdout, inst_wrapper, pc, ret, allocs, live, outs,
               wcalls, steps, threads>>

MaxRequests == 2
CloseRetries == 60
Unbound == "unbound"
LoopDevices == {"/dev/loop0"}
NewConn == [sent |-> <<>>, s_open |-> TRUE, conn_open |-> TRUE]
Cur == Len(daemon.conns)

Entry(cmd, phase, ok) == [cmd |-> cmd, phase |-> phase, ok |-> ok]

\* subprocess.check_output(cmd) inside the try block: a non-zero exit
\* raises CalledProcessError, caught by `except Exception` at line 59.
check_output(cmd, ok, next) ==
    /\ daemon' = [daemon EXCEPT !.pc = IF ok THEN next ELSE "except_dd",
                                !.ran = Append(@, Entry(cmd, "try", ok))]
    /\ UNCHANGED <<wasm_vars, response>>

\* subprocess.run(cmd) in the handler: the exit status is not looked at.
run(cmd, ok, next) ==
    /\ daemon' = [daemon EXCEPT !.pc = next,
                                !.ran = Append(@, Entry(cmd, "except", ok))]
    /\ UNCHANGED <<wasm_vars, response>>

\* server.listen(1); conn, addr = server.accept(); s = socket.fromfd(...)
Accept ==
    /\ daemon.pc = "accept"
    /\ Cur < MaxRequests
    /\ daemon' = [daemon EXCEPT !.pc = "recv", !.conns = Append(@, NewConn), !.ran = <<>>]
    /\ UNCHANGED <<wasm_vars, response>>

\* The length prefix and the pickled request are read outside the try
\* block: a request that does not unpickle to {dest, src, key} ends the
\* process with the exception.
Recv(well_formed) ==
    /\ daemon.pc = "recv"
    /\ daemon' = [daemon EXCEPT !.pc = IF well_formed THEN "losetup_f" ELSE "dead",
                                !.error = IF well_formed THEN @ ELSE "UnpicklingError"]
    /\ UNCHANGED <<wasm_vars, response>>

\* loop_device = check_output(["losetup", "-f"]): the name is assigned only
\* when the command succeeded.
LosetupFind(ok, dev) ==
    /\ daemon.pc = "losetup_f"
    /\ daemon' = [daemon EXCEPT !.pc = IF ok THEN "mknod" ELSE "except_dd",
                                !.loop_device = IF ok THEN dev ELSE @,
                                !.ran = Append(@, Entry("losetup -f", "try", ok))]
    /\ UNCHANGED <<wasm_vars, response>>

\* if not os.path.exists(loop_device): check_output(["mknod", ...])
Mknod(exists, ok) ==
    /\ daemon.pc = "mknod"
    /\ IF exists
         THEN /\ daemon' = [daemon EXCEPT !.pc = "losetup"]
              /\ UNCHANGED <<wasm_vars, response>>
         ELSE check_output("mknod", ok, "losetup")

Attach(ok) == daemon.pc = "losetup" /\ check_output("losetup", ok, "luksFormat")

LuksFormat(ok) == daemon.pc = "luksFormat" /\ check_output("luksFormat", ok, "open")

Open(ok) == daemon.pc = "open" /\ check_output("open", ok, "dd")

\* dd if=src of=/dev/mapper/uuid4; on success the retry loop is entered
\* with no attempt made yet.
Copy(ok) ==
    /\ daemon.pc = "dd"
    /\ daemon' = [daemon EXCEPT !.pc = IF ok THEN "close" ELSE "except_dd",
                                !.n = 0,
                                !.ran = Append(@, Entry("dd", "try", ok))]
    /\ UNCHANGED <<wasm_vars, response>>

CloseAttempt_uncounted(ok) ==
    /\ daemon.pc = "close"
    /\ Len(daemon.ran) < 2 * CloseRetries
    /\ daemon' = [daemon EXCEPT !.pc = IF ok THEN "losetup_d" ELSE "close",
                                !.ran = Append(@, Entry("close", "try", ok))]
    /\ UNCHANGED <<wasm_vars, response>>

\* One pass of `for n in range(60)`: sleep, cryptsetup close; success
\* breaks out of the loop, CalledProcessError goes to the next pass, and
\* when the last pass failed the else branch raises Exception.
CloseAttempt(ok) ==
    /\ daemon.pc = "close"
    /\ daemon.n < CloseRetries
    /\ daemon' = [daemon EXCEPT !.pc = IF ok THEN "losetup_d"
                                       ELSE IF daemon.n + 1 < CloseRetries THEN "close"
                                       ELSE "except_dd",
                                !.n = IF ok \/ daemon.n + 1 = CloseRetries THEN 0 ELSE @ + 1,
                                !.ran = Append(@, Entry("close", "try", ok))]
    /\ UNCHANGED <<wasm_vars, response>>

Detach(ok) == daemon.pc = "losetup_d" /\ check_output("losetup -d", ok, "send0")

\* s.send((0).to_bytes(1, "big")); print("done"); s.close().  A send that
\* raises OSError (the client is gone) is caught by the handler as well.
SendSuccess(ok) ==
    /\ daemon.pc = "send0"
    /\ daemon' = [daemon EXCEPT !.pc = IF ok THEN "conn_close" ELSE "except_dd",
                                !.conns[Cur].sent = IF ok THEN Append(@, 0) ELSE @,
                                !.conns[Cur].s_open = IF ok THEN FALSE ELSE @,
                                !.ran = Append(@, Entry("send0", "try", ok))]
    /\ UNCHANGED <<wasm_vars, response>>

\* except Exception: subprocess.run(["dd", ...])
HandlerCopy(ok) == daemon.pc = "except_dd" /\ run("dd", ok, "except_close")

\* subprocess.run(["cryptsetup", "close", uuid4])
HandlerClose(ok) == daemon.pc = "except_close" /\ run("close", ok, "except_losetup_d")

\* subprocess.run(["losetup", "-d", loop_device]): evaluating the unbound
\* name raises NameError inside the handler, which nothing catches.
HandlerDetach(ok) ==
    /\ daemon.pc = "except_losetup_d"
    /\ IF daemon.loop_device = Unbound
         THEN /\ daemon' = [daemon EXCEPT !.pc = "dead", !.error = "NameError"]
              /\ UNCHANGED <<wasm_vars, response>>
         ELSE run("losetup -d", ok, "send1")

\* s.send((1).to_bytes(1, "big")); s.close(); print(e)
SendFailure(ok) ==
    /\ daemon.pc = "send1"
    /\ daemon' = [daemon EXCEPT !.pc = IF ok THEN "conn_close" ELSE "dead",
                                !.error = IF ok THEN @ ELSE "OSError",
                                !.conns[Cur].sent = IF ok THEN Append(@, 1) ELSE @,
                                !.conns[Cur].s_open = IF ok THEN FALSE ELSE @,
                                !.ran = Append(@, Entry("send1", "except", ok))]
    /\ UNCHANGED <<wasm_vars, response>>

ConnClose_leaves_open ==
    /\ daemon.pc = "conn_close"
    /\ daemon' = [daemon EXCEPT !.pc = "accept"]
    /\ UNCHANGED <<wasm_vars, response>>

\* conn.close(), then back to the top of `while True`.
ConnClose ==
    /\ daemon.pc = "conn_close"
    /\ daemon' = [daemon EXCEPT !.pc = "accept", !.conns[Cur].conn_open = FALSE]
    /\ UNCHANGED <<wasm_vars, response>>

InitDaemon ==
    /\ alloc_ptr = 0
    /\ mem = <<>>
    /\ captured_stdout = <<>>
    /\ inst_wrapper = FALSE
    /\ pc = "returned"
    /\ ret = NoRet
    /\ allocs = <<>>
    /\ live = <<>>
    /\ outs = <<>>
    /\ wcalls = <<>>
    /\ steps = 0
    /\ threads = NoThreads
    /\ daemon = [pc |-> "accept", loop_device |-> Unbound, n |-> 0, ran |-> <<>>,
                 conns |-> <<>>, error |-> "none"]
    /\ response = NoResponse

NextDaemon ==
    \/ Accept
    \/ \E well_formed \in BOOLEAN : Recv(well_formed)
    \/ \E ok \in BOOLEAN, dev \in LoopDevices : LosetupFind(ok, dev)
    \/ \E exists, ok \in BOOLEAN : Mknod(exists, ok)
    \/ \E ok \in BOOLEAN : Attach(ok)
    \/ \E ok \in BOOLEAN : LuksFormat(ok)
    \/ \E ok \in BOOLEAN : Open(ok)
    \/ \E ok \in BOOLEAN : Copy(ok)
    \/ \E ok \in BOOLEAN : CloseAttempt(ok)
    \/ \E ok \in BOOLEAN : Detach(ok)
    \/ \E ok \in BOOLEAN : SendSuccess(ok)
    \/ \E ok \in BOOLEAN : HandlerCopy(ok)
    \/ \E ok \in BOOLEAN : HandlerClose(ok)
    \/ \E ok \in BOOLEAN : HandlerDetach(ok)
    \/ \E ok \in BOOLEAN : SendFailure(ok)
    \/ ConnClose

\* Each pass of the retry loop is straight-line code of the only thread.
SpecDaemon ==
    InitDaemon /\ [][NextDaemon]_vars /\ WF_vars(\E ok \in BOOLEAN : CloseAttempt(ok))


\* The commands of the current request, as the claims name them.
StepIndex(cmd) ==
    CASE cmd = "losetup" -> 1
      [] cmd = "luksFormat" -> 2
      [] cmd = "open" -> 3
      [] cmd = "dd" -> 4
      [] cmd = "close" -> 5
      [] cmd = "losetup -d" -> 6
      [] OTHER -> 0

Ran == DOMAIN daemon.ran
Closes == {i \in Ran : daemon.ran[i].cmd = "close"}
LoopCloses == {i \in Closes : daemon.ran[i].phase = "try"}
FailedLoopCloses == {i \in LoopCloses : ~daemon.ran[i].ok}

\* Entry i is a step of the try block that failed for good: a command other
\* than close that exited non-zero, or the last failing pass of the loop.
StepFailedAt(i) ==
    /\ daemon.ran[i].phase = "try"
    /\ ~daemon.ran[i].ok
    /\ daemon.ran[i].cmd # "send0"
    /\ daemon.ran[i].cmd = "close" =>
           Cardinality({j \in FailedLoopCloses : j <= i}) = CloseRetries

StepFailed == \E i \in Ran : StepFailedAt(i)
SendFailed == \E i \in Ran : daemon.ran[i].cmd \in {"send0", "send1"} /\ ~daemon.ran[i].ok
Served(i) == /\ Len(daemon.conns[i].sent) = 1
             /\ ~daemon.conns[i].s_open
             /\ ~daemon.conns[i].conn_open

\* C23: every accepted well-formed request whose client stays connected
\* gets exactly one status byte before its connection is closed, 0 when
\* every step succeeded and 1 when a step failed, whichever step failed.
C23_OneStatusByte ==
    /\ \A i \in 1..(Cur - 1) : Len(daemon.conns[i].sent) = 1
    /\ (daemon.pc = "conn_close" /\ ~SendFailed) =>
           /\ daemon.conns[Cur].sent = IF StepFailed THEN <<1>> ELSE <<0>>
           /\ ~daemon.conns[Cur].s_open
    /\ (daemon.pc = "dead" /\ daemon.error # "UnpicklingError" /\ ~SendFailed) =>
           Len(daemon.conns[Cur].sent) = 1

C26_FailedStepStopsSequence ==
    /\ \A i, j \in Ran :
           (i < j /\ StepIndex(daemon.ran[i].cmd) > 0 /\ StepIndex(daemon.ran[j].cmd) > 0) =>
               StepIndex(daemon.ran[i].cmd) <= StepIndex(daemon.ran[j].cmd)
    /\ \A i, j \in Ran :
           (i < j /\ StepIndex(daemon.ran[i].cmd) > 0 /\ StepFailedAt(i)) =>
               StepIndex(daemon.ran[j].cmd) <= StepIndex(daemon.ran[i].cmd)
    /\ (Cur > 0 /\ daemon.conns[Cur].sent # <<>> /\ daemon.conns[Cur].sent[1] = 0) =>
           \E i \in Ran : daemon.ran[i] = Entry("losetup -d", "try", TRUE)

\* C27: a connection is accepted only when every earlier one has had its
\* status byte and has been closed; after status 1 has been sent the
\* connection is closed and the daemon is back at accept.
C27_OneConnectionAtATime ==
    /\ [](/\ \A i \in 1..(Cur - 1) : Served(i)
          /\ (daemon.pc = "accept" /\ Cur > 0) => Served(Cur))
    /\ [][Cur' > Cur => (daemon.pc = "accept" /\ \A i \in 1..Cur : Served(i))]_vars
    /\ [][(daemon.pc = "send1" /\ daemon'.conns[Cur].sent = <<1>>) =>
              daemon'.pc = "conn_close"]_vars
    /\ [][daemon.pc = "conn_close" => (daemon'.pc = "accept" /\ Served(Cur)')]_vars

C27_Witness ==
    /\ daemon.pc = "accept"
    /\ Cur = 2
    /\ daemon.conns[1].sent = <<1>>
    /\ daemon.conns[2].sent = <<0>>
    /\ Served(1)
    /\ Served(2)


\* ---------------------------------------------------------------------
\* The static binary server (projects/mojo-wasm/server.py).
\*
\* WASMHandler overrides end_headers of SimpleHTTPRequestHandler and
\* inherits everything else.  response.request_version, .command and .path
\* are the handler's attributes of those names, response.headers_buffer is
\* _headers_buffer, response.code and response.pending the status and the
\* headers the inherited method is about to send, response.wire what has
\* been written to the client for the current request and response.served
\* the number of requests answered.
MaxResponses == 2
Methods == {"GET", "HEAD", "POST"}
Paths == {"/app.wasm", "/missing", "/dir", "/dir/"}
\* The last word of the request line: a supported version, nothing (a
\* two-word HTTP/0.9 request line) or a word that is not a version.
Versions == {"HTTP/1.1", "HTTP/1.0", "", "FOO/1.1"}
RequestLines == [command : Methods, path : Paths, version : Versions]

CorsHeaders ==
    << <<"Access-Control-Allow-Origin", "*">>,
       <<"Access-Control-Allow-Methods", "GET, OPTIONS">>,
       <<"Access-Control-Allow-Headers", "Content-Type">>,
       <<"Cross-Origin-Opener-Policy", "same-origin">>,
       <<"Cross-Origin-Embedder-Policy", "require-corp">> >>

IdleResponse == [pc |-> "idle", request_version |-> "HTTP/0.9", command |-> "", path |-> "",
                 code |-> 0, pending |-> <<>>, headers_buffer |-> <<>>,
                 wire |-> [head |-> <<>>, body |-> FALSE], served |-> 0]

\* The inherited send_header: the header joins the buffer unless the
\* request is being answered in HTTP/0.9 style.
send_header(r, keyword, value) ==
    IF r.request_version # "HTTP/0.9"
      THEN [r EXCEPT !.headers_buffer = Append(@, <<keyword, value>>)]
      ELSE r

\* SimpleHTTPRequestHandler.end_headers(self): the buffer is written out
\* and emptied, again unless the request is HTTP/0.9.
base_end_headers(r) ==
    IF r.request_version # "HTTP/0.9"
      THEN [r EXCEPT !.wire.head = @ \o r.headers_buffer, !.headers_buffer = <<>>]
      ELSE r

end_headers_without_coep(r) ==
    base_end_headers(
        send_header(
            send_header(
                send_header(
                    send_header(r, CorsHeaders[1][1], CorsHeaders[1][2]),
                    CorsHeaders[2][1], CorsHeaders[2][2]),
                CorsHeaders[3][1], CorsHeaders[3][2]),
            CorsHeaders[4][1], CorsHeaders[4][2]))

\* WASMHandler.end_headers
end_headers(r) ==
    base_end_headers(
        send_header(
            send_header(
                send_header(
                    send_header(
                        send_header(r, CorsHeaders[1][1], CorsHeaders[1][2]),
                        CorsHeaders[2][1], CorsHeaders[2][2]),
                    CorsHeaders[3][1], CorsHeaders[3][2]),
                CorsHeaders[4][1], CorsHeaders[4][2]),
            CorsHeaders[5][1], CorsHeaders[5][2]))

\* The status the inherited handler answers a request line with: 400 for
\* a last word that is no version and for a two-word line that is not a
\* GET, 501 for a method without a do_ method, and for GET and HEAD what
\* send_head finds at the path.
StatusOf(req) ==
    IF req.version = "FOO/1.1" THEN 400
    ELSE IF req.version = "" /\ req.command # "GET" THEN 400
    ELSE IF req.command = "POST" THEN 501
    ELSE IF req.path = "/missing" THEN 404
    ELSE IF req.path = "/dir" THEN 301
    ELSE 200

\* The headers the inherited method sends between send_response and
\* end_headers.
HeadersOf(req) ==
    LET code == StatusOf(req) IN
    IF code = 200 /\ req.path = "/app.wasm"
      THEN << <<"Content-type", "application/wasm">>, <<"Content-Length", "n">>,
              <<"Last-Modified", "date">> >>
    ELSE IF code = 200
      THEN << <<"Content-type", "text/html">>, <<"Content-Length", "n">> >>
    ELSE IF code = 301
      THEN << <<"Location", "/dir/">>, <<"Content-Length", "0">> >>
    ELSE << <<"Connection", "close">>, <<"Content-Type", "text/html">>,
            <<"Content-Length", "n">> >>

\* parse_request: request_version stays at the default "HTTP/0.9" until a
\* supported version has been parsed; the errors of the request line are
\* answered before that.
ParseRequest(req) ==
    /\ response.pc = "idle"
    /\ response.served < MaxResponses
    /\ response' = [response EXCEPT
           !.pc = "send_response",
           !.request_version = IF req.version \in {"HTTP/1.1", "HTTP/1.0"}
                                 THEN req.version ELSE "HTTP/0.9",
           !.command = req.command,
           !.path = req.path,
           !.code = StatusOf(req),
           !.pending = HeadersOf(req),
           !.headers_buffer = <<>>,
           !.wire = [head |-> <<>>, body |-> FALSE]]
    /\ UNCHANGED <<wasm_vars, daemon>>

\* send_response(code): the status line, Server and Date go through the
\* same buffer.
SendResponse ==
    /\ response.pc = "send_response"
    /\ \E r \in {send_header(send_header(send_header(response, "status", "line"),
                                         "Server", "SimpleHTTP"), "Date", "date")} :
           response' = [r EXCEPT !.pc = "send_header"]
    /\ UNCHANGED <<wasm_vars, daemon>>

SendHeader ==
    /\ response.pc = "send_header"
    /\ response.pending # <<>>
    /\ \E r \in {send_header(response, Head(response.pending)[1], Head(response.pending)[2])} :
           response' = [r EXCEPT !.pending = Tail(@)]
    /\ UNCHANGED <<wasm_vars, daemon>>

EndHeaders ==
    /\ response.pc = "send_header"
    /\ response.pending = <<>>
    /\ \E r \in {end_headers(response)} :
           response' = [r EXCEPT !.pc = "body"]
    /\ UNCHANGED <<wasm_vars, daemon>>

\* The body follows the headers, except for HEAD.
SendBody ==
    /\ response.pc = "body"
    /\ response' = [response EXCEPT !.pc = "sent",
                                    !.wire.body = response.command # "HEAD",
                                    !.served = @ + 1]
    /\ UNCHANGED <<wasm_vars, daemon>>

\* The connection is closed and the server waits for the next request.
FinishRequest ==
    /\ response.pc = "sent"
    /\ response' = [response EXCEPT !.pc = "idle"]
    /\ UNCHANGED <<wasm_vars, daemon>>

InitServer ==
    /\ alloc_ptr = 0
    /\ mem = <<>>
    /\ captured_stdout = <<>>
    /\ inst_wrapper = FALSE
    /\ pc = "returned"
    /\ ret = NoRet
    /\ allocs = <<>>
    /\ live = <<>>
    /\ outs = <<>>
    /\ wcalls = <<>>
    /\ steps = 0
    /\ threads = NoThreads
    /\ daemon = NoDaemon
    /\ response = IdleResponse

NextServer ==
    \/ \E req \in RequestLines : ParseRequest(req)
    \/ SendResponse
    \/ SendHeader
    \/ EndHeaders
    \/ SendBody
    \/ FinishRequest

SpecServer == InitServer /\ [][NextServer]_vars

Occurrences(head, h) == Cardinality({i \in DOMAIN head : head[i] = h})
KeywordOccurrences(head, k) == Cardinality({i \in DOMAIN head : head[i][1] = k})
CarriesCorsOnce(head) ==
    \A n \in DOMAIN CorsHeaders :
        /\ Occurrences(head, CorsHeaders[n]) = 1
        /\ KeywordOccurrences(head, CorsHeaders[n][1]) = 1

\* C24 as stated: every response sent, whatever the request and the status,
\* carries each of the five headers exactly once.
C24_EveryResponseCarriesCors ==
    response.pc = "sent" => CarriesCorsOnce(response.wire.head)

\* C24: every response sent with a header section, that is every answer to
\* a request line with a supported HTTP/1.x version, success or error,
\* carries each of the five headers exactly once; an answer in HTTP/0.9
\* style (a two-word request line, or the 400 for a malformed one) is a
\* body without any header.
C24_HeaderedResponsesCarryCors ==
    response.pc = "sent" =>
        IF response.request_version # "HTTP/0.9"
          THEN CarriesCorsOnce(response.wire.head)
          ELSE response.wire.head = <<>>

C24_Witness ==
    /\ response.pc = "sent"
    /\ response.request_version = "HTTP/1.1"
    /\ response.code = 404
    /\ response.served = 2
    /\ CarriesCorsOnce(response.wire.head)

====
